---- MODULE Spec2Model ----
(***************************************************************************)
(* NOTAM viewer (script.js): the text-to-geometry engine.                  *)
(*                                                                         *)
(* Text is a sequence of one-character strings.  Angles are exact integers *)
(* in hundredths of an arc second (Deg units per degree), so that          *)
(* DD + MM/60 + SS.ss/3600 is computed without rounding for tokens with at *)
(* most two decimals of a second.                                          *)
(***************************************************************************)
EXTENDS Integers, Sequences, FiniteSets, TLC

VARIABLES
    call,                  \* the call: the function and the description of its argument
    ret,                   \* what the call returned: Pending, or a list that holds
                           \* Pending, until it returns
    text,                  \* parseNotams: the argument
    parts,                 \* text.split(notamPattern)
    i,                     \* index of the notice loop
    seenIds,
    notams,
    pc,                    \* the place parseNotams has reached
    notamId,
    content,
    eContent,
    extractionStartIndex,
    areaSearchLastIndex,   \* areaSearchPattern.lastIndex
    coordLastIndex,        \* coordPattern.lastIndex
    groupClosed,
    closedGroupPositions,
    coordinates,
    seenPositions,
    coordinateGroups,
    showAll,               \* parseAndDisplay: the state of the box "Show all NOTAMs"
    locationGroups,        \* parseAndDisplay: the marker groups, in the order of the Map
    radiusCircle,          \* the variable of line 85: Null, or a circle layer
    circles,               \* the circle layers on the map, in the order they were added
    popup                  \* the popup that is open on the map: Null, or its source

vars ==
    <<call, ret, text, parts, i, seenIds, notams, pc, notamId, content, eContent,
      extractionStartIndex, areaSearchLastIndex, coordLastIndex, groupClosed,
      closedGroupPositions, coordinates, seenPositions, coordinateGroups,
      showAll, locationGroups, radiusCircle, circles, popup>>

\* the state of the map
mapVars == <<radiusCircle, circles, popup>>

---------------------------------------------------------------------------
(* Characters and numbers                                                  *)

Digits == {"0", "1", "2", "3", "4", "5", "6", "7", "8", "9"}

DigitVal(c) ==
    CASE c = "0" -> 0 [] c = "1" -> 1 [] c = "2" -> 2 [] c = "3" -> 3
      [] c = "4" -> 4 [] c = "5" -> 5 [] c = "6" -> 6 [] c = "7" -> 7
      [] c = "8" -> 8 [] c = "9" -> 9

DigitChar(d) ==
    CASE d = 0 -> "0" [] d = 1 -> "1" [] d = 2 -> "2" [] d = 3 -> "3"
      [] d = 4 -> "4" [] d = 5 -> "5" [] d = 6 -> "6" [] d = 7 -> "7"
      [] d = 8 -> "8" [] d = 9 -> "9"

IsDigitAt(s, ix) == ix >= 1 /\ ix <= Len(s) /\ s[ix] \in Digits

\* \s of the regular expressions: blank and line feed are the white space
\* of the texts modelled here
IsWsAt(s, ix) == ix >= 1 /\ ix <= Len(s) /\ s[ix] \in {" ", "\n"}

CharAt(s, ix) == IF ix >= 1 /\ ix <= Len(s) THEN s[ix] ELSE ""

UpperLetters ==
    <<"A", "B", "C", "D", "E", "F", "G", "H", "I", "J", "K", "L", "M",
      "N", "O", "P", "Q", "R", "S", "T", "U", "V", "W", "X", "Y", "Z">>

LowerLetters ==
    <<"a", "b", "c", "d", "e", "f", "g", "h", "i", "j", "k", "l", "m",
      "n", "o", "p", "q", "r", "s", "t", "u", "v", "w", "x", "y", "z">>

UpperSet == {UpperLetters[ix] : ix \in DOMAIN UpperLetters}
LowerSet == {LowerLetters[ix] : ix \in DOMAIN LowerLetters}

\* String.prototype.toUpperCase, and the case folding of the flag i
ToUpperCase(c) ==
    IF c \in LowerSet
    THEN UpperLetters[CHOOSE ix \in DOMAIN LowerLetters : LowerLetters[ix] = c]
    ELSE c

\* [A-Z] under the flag i
IsLetterAt(s, ix) == ix >= 1 /\ ix <= Len(s) /\ s[ix] \in UpperSet \cup LowerSet

\* \w: a letter, a digit or the underscore
IsWordAt(s, ix) == IsLetterAt(s, ix) \/ IsDigitAt(s, ix) \/ (ix >= 1 /\ ix <= Len(s) /\ s[ix] = "_")

\* \b between positions i - 1 and i
BoundaryAt(s, ix) == IsWordAt(s, ix - 1) # IsWordAt(s, ix)

\* String.prototype.substring(a, b) with 0-based a (inclusive), b (exclusive)
Substring(s, a, b) ==
    LET lo == IF a < 0 THEN 0 ELSE IF a > Len(s) THEN Len(s) ELSE a
        hi == IF b < 0 THEN 0 ELSE IF b > Len(s) THEN Len(s) ELSE b
    IN  IF lo >= hi THEN << >> ELSE SubSeq(s, lo + 1, hi)

SubstringFrom(s, a) == Substring(s, a, Len(s))

Includes(s, c) == \E ix \in 1..Len(s) : s[ix] = c

\* length of the run of digits (white space) that starts at position i
RECURSIVE DigitRun(_, _)
DigitRun(s, ix) == IF IsDigitAt(s, ix) THEN 1 + DigitRun(s, ix + 1) ELSE 0

RECURSIVE WsRun(_, _)
WsRun(s, ix) == IF IsWsAt(s, ix) THEN 1 + WsRun(s, ix + 1) ELSE 0

\* parseInt(s, 10) of a string of digits
RECURSIVE ParseInt(_)
ParseInt(s) ==
    IF Len(s) = 0 THEN 0
    ELSE 10 * ParseInt(SubSeq(s, 1, Len(s) - 1)) + DigitVal(s[Len(s)])

\* units of the exact arithmetic: hundredths of an arc second
SecUnit == 100
MinUnit == 60 * SecUnit
Deg == 60 * MinUnit

\* parseFloat of "SS", "SS.f" or "SS.ff", in hundredths
ParseFloat(s) ==
    LET dot == IF Includes(s, ".")
               THEN CHOOSE ix \in 1..Len(s) : s[ix] = "." /\ \A j \in 1..(ix - 1) : s[j] # "."
               ELSE Len(s) + 1
        whole == SubSeq(s, 1, dot - 1)
        frac == SubSeq(s, dot + 1, Len(s))
        f1 == IF Len(frac) >= 1 THEN DigitVal(frac[1]) ELSE 0
        f2 == IF Len(frac) >= 2 THEN DigitVal(frac[2]) ELSE 0
    IN  ParseInt(whole) * SecUnit + 10 * f1 + f2


---------------------------------------------------------------------------
(* Coordinate decoders                                                     *)

\* the null a decoder returns when its pattern does not match
Null == [null |-> TRUE]

\* the call has not returned yet
Pending == [pending |-> TRUE]

IsNS(c) == ToUpperCase(c) \in {"N", "S"}
IsEW(c) == ToUpperCase(c) \in {"E", "W"}

AllDigits(s) == \A ix \in 1..Len(s) : s[ix] \in Digits

\* the pattern without its closing anchor: anything may follow the letter
QualifierCoordMatchesOpen(s) ==
    /\ Len(s) >= 11
    /\ AllDigits(SubSeq(s, 1, 4))
    /\ IsNS(s[5])
    /\ AllDigits(SubSeq(s, 6, 10))
    /\ IsEW(s[11])

\* /^(\d{4})([NS])(\d{5})([EW])(\d{3})?$/i
QualifierCoordMatches(s) ==
    /\ Len(s) \in {11, 14}
    /\ AllDigits(SubSeq(s, 1, 4))
    /\ IsNS(s[5])
    /\ AllDigits(SubSeq(s, 6, 10))
    /\ IsEW(s[11])
    /\ AllDigits(SubSeq(s, 12, Len(s)))

\* parseQualifierLineCoordinate: DDMM N|S DDDMM E|W and an optional 3-digit
\* radius; radius is << >> for the null of a missing radius
ParseQualifierLineCoordinate(qualifierLineCoord) ==
    IF ~QualifierCoordMatches(qualifierLineCoord) THEN Null
    ELSE
        LET latStr == SubSeq(qualifierLineCoord, 1, 4)
            latDir == ToUpperCase(qualifierLineCoord[5])
            lonStr == SubSeq(qualifierLineCoord, 6, 10)
            lonDir == ToUpperCase(qualifierLineCoord[11])
            radius == IF Len(qualifierLineCoord) = 14
                      THEN <<ParseInt(SubSeq(qualifierLineCoord, 12, 14))>>
                      ELSE << >>
            latDeg == ParseInt(Substring(latStr, 0, 2))
            latMin == ParseInt(Substring(latStr, 2, 4))
            lonDeg == ParseInt(Substring(lonStr, 0, 3))
            lonMin == ParseInt(Substring(lonStr, 3, 5))
            lat == latDeg * Deg + latMin * MinUnit
            lon == lonDeg * Deg + lonMin * MinUnit
        IN  [lat |-> IF latDir = "S" THEN -lat ELSE lat,
             lon |-> IF lonDir = "W" THEN -lon ELSE lon,
             radius |-> radius]

\* String.prototype.trim
RECURSIVE Trim(_)
Trim(s) ==
    IF Len(s) = 0 THEN s
    ELSE IF IsWsAt(s, 1) THEN Trim(Tail(s))
    ELSE IF IsWsAt(s, Len(s)) THEN Trim(SubSeq(s, 1, Len(s) - 1))
    ELSE s

\* The ends (exclusive) that group 1, (\d{6,7}(?:\.\d+)?), can take when it
\* starts at i, in the order the regular expression tries them: 7 digits
\* before 6, the longest fraction first, no fraction last.
DmsLatEndsFor(s, ix, n) ==
    LET p == ix + n
        m == IF CharAt(s, p) = "." THEN DigitRun(s, p + 1) ELSE 0
    IN  [k \in 1..m |-> p + 1 + (m - k + 1)] \o <<p>>

DmsLatEnds(s, ix) ==
    LET r == DigitRun(s, ix)
    IN  (IF r >= 7 THEN DmsLatEndsFor(s, ix, 7) ELSE << >>)
          \o (IF r >= 6 THEN DmsLatEndsFor(s, ix, 6) ELSE << >>)

\* groups 3 and 4, (\d{7,8}(?:\.\d+)?)\s*([EW])?, from position l: greedy,
\* and nothing after them can fail, so the first choice stands
DmsLonPart(s, l) ==
    LET n == IF DigitRun(s, l) >= 8 THEN 8 ELSE 7
        p == l + n
        m == IF CharAt(s, p) = "." THEN DigitRun(s, p + 1) ELSE 0
        e == IF m >= 1 THEN p + 1 + m ELSE p
        d == e + WsRun(s, e)
    IN  [lonStr |-> SubSeq(s, l, e - 1),
         lonDir |-> IF IsEW(CharAt(s, d)) THEN CharAt(s, d) ELSE ""]

\* \s*([NS])?\s+ between the two tokens (first pattern), from position q:
\* the splits <<blanks, letter, blanks>> after which 7 digits follow, and
\* the one the greedy quantifiers reach first
SpacedMiddles(s, q) ==
    {m \in (0..WsRun(s, q)) \X {0, 1} \X (1..Len(s)) :
        /\ m[2] = 1 => IsNS(CharAt(s, q + m[1]))
        /\ m[3] <= WsRun(s, q + m[1] + m[2])
        /\ DigitRun(s, q + m[1] + m[2] + m[3]) >= 7}

Greedier(a, b) ==
    \/ a[1] > b[1]
    \/ a[1] = b[1] /\ a[2] > b[2]
    \/ a[1] = b[1] /\ a[2] = b[2] /\ a[3] >= b[3]

\* ([NS])? directly followed by the longitude digits (second pattern)
JoinedMiddles(s, q) ==
    {m \in {0} \X {0, 1} \X {0} :
        /\ m[2] = 1 => IsNS(CharAt(s, q))
        /\ DigitRun(s, q + m[2]) >= 7}

\* one attempt of a pattern at start i with group 1 ending at q
DmsAttempt(s, ix, q, middles) ==
    IF middles = {} THEN Null
    ELSE
        LET m == CHOOSE a \in middles : \A b \in middles : Greedier(a, b)
            l == q + m[1] + m[2] + m[3]
            lonPart == DmsLonPart(s, l)
        IN  [latStr |-> SubSeq(s, ix, q - 1),
             latDir |-> IF m[2] = 1 THEN CharAt(s, q + m[1]) ELSE "",
             lonStr |-> lonPart.lonStr,
             lonDir |-> lonPart.lonDir]

\* the first attempt that succeeds, over the starts from i on and, for each
\* start, the ends of group 1 in order
RECURSIVE DmsMatchFrom(_, _, _, _)
DmsMatchFrom(s, ix, k, spaced) ==
    IF ix > Len(s) THEN Null
    ELSE
        LET ends == DmsLatEnds(s, ix)
        IN  IF k > Len(ends) THEN DmsMatchFrom(s, ix + 1, 1, spaced)
            ELSE
                LET q == ends[k]
                    a == DmsAttempt(s, ix, q,
                            IF spaced THEN SpacedMiddles(s, q) ELSE JoinedMiddles(s, q))
                IN  IF a # Null THEN a ELSE DmsMatchFrom(s, ix, k + 1, spaced)

\* /(\d{6,7}(?:\.\d+)?)\s*([NS])?\s+(\d{7,8}(?:\.\d+)?)\s*([EW])?/i
DmsSpacedMatch(s) == DmsMatchFrom(s, 1, 1, TRUE)

\* /(\d{6,7}(?:\.\d+)?)([NS])?(\d{7,8}(?:\.\d+)?)([EW])?/i
DmsJoinedMatch(s) == DmsMatchFrom(s, 1, 1, FALSE)

\* lonStr after the handling of 7-digit longitudes
NormalizeLon(latStr, lonStr) ==
    IF Len(lonStr) = 7 /\ ~Includes(lonStr, ".")
    THEN IF lonStr[1] = "0" THEN lonStr \o <<"0">> ELSE <<"0">> \o lonStr
    ELSE lonStr

\* LatSec without the tenths reading of a 7th digit
LatSecWholeOnly(latStr) == ParseFloat(SubstringFrom(latStr, 4))

\* seconds of a latitude string, in hundredths
LatSec(latStr) ==
    IF Includes(latStr, ".") THEN ParseFloat(SubstringFrom(latStr, 4))
    ELSE IF Len(latStr) = 7
         THEN ParseFloat(Substring(latStr, 4, 6) \o <<".">> \o SubstringFrom(latStr, 6))
         ELSE ParseFloat(SubstringFrom(latStr, 4))

\* LonSec without the tenths reading of an 8th digit
LonSecWholeOnly(lonStr) == ParseFloat(SubstringFrom(lonStr, 5))

\* seconds of a longitude string, in hundredths
LonSec(lonStr) ==
    IF Includes(lonStr, ".") THEN ParseFloat(SubstringFrom(lonStr, 5))
    ELSE IF Len(lonStr) = 8
         THEN ParseFloat(Substring(lonStr, 5, 7) \o <<".">> \o SubstringFrom(lonStr, 7))
         ELSE ParseFloat(SubstringFrom(lonStr, 5))

\* lines 204-216: degrees, minutes and seconds of the two strings
DmsDegrees(latStr, latDir, lonStr, lonDir) ==
    [lat |-> (IF latDir = "S" THEN -1 ELSE 1)
               * (ParseInt(Substring(latStr, 0, 2)) * Deg
                    + ParseInt(Substring(latStr, 2, 4)) * MinUnit + LatSec(latStr)),
     lon |-> (IF lonDir = "W" THEN -1 ELSE 1)
               * (ParseInt(Substring(lonStr, 0, 3)) * Deg
                    + ParseInt(Substring(lonStr, 3, 5)) * MinUnit + LonSec(lonStr))]

\* lines 159-176: the groups of the match, the letters defaulted
DmsGroups(latStr, latDir, lonStr, lonDir) ==
    DmsDegrees(latStr,
               ToUpperCase(IF latDir = "" THEN "N" ELSE latDir),
               NormalizeLon(latStr, lonStr),
               ToUpperCase(IF lonDir = "" THEN "E" ELSE lonDir))

DmsValue(match) ==
    IF match = Null THEN Null
    ELSE DmsGroups(match.latStr, match.latDir, match.lonStr, match.lonDir)

\* coordStr.match(first pattern) || coordStr.match(second pattern)
FirstMatch(first, second) == IF first # Null THEN first ELSE second

DmsMatch(s) == FirstMatch(DmsSpacedMatch(s), DmsJoinedMatch(s))

\* parseDMSCoordinate
ParseDMSCoordinate(coordStr) == DmsValue(DmsMatch(Trim(coordStr)))

---------------------------------------------------------------------------
(* Regular expressions of parseNotams                                      *)
(* Positions are 1-based; an "end" is the position after the match and 0   *)
(* says that there is no match.                                            *)

Least(S) == CHOOSE x \in S : \A y \in S : x <= y

\* the literal w (upper case) at position i, letters compared under flag i
LitAt(s, ix, w) ==
    /\ ix >= 1
    /\ ix + Len(w) - 1 <= Len(s)
    /\ \A k \in 1..Len(w) : ToUpperCase(s[ix + k - 1]) = w[k]

\* words separated by \s+ at position i
RECURSIVE PhraseEndAt(_, _, _)
PhraseEndAt(s, ix, phrase) ==
    IF ~LitAt(s, ix, Head(phrase)) THEN 0
    ELSE LET j == ix + Len(Head(phrase))
         IN  IF Len(phrase) = 1 THEN j
             ELSE IF WsRun(s, j) = 0 THEN 0
             ELSE PhraseEndAt(s, j + WsRun(s, j), Tail(phrase))

\* [A-Z]\d+\/\d+
SerialEndAt(s, ix) ==
    LET d1 == DigitRun(s, ix + 1)
        d2 == DigitRun(s, ix + 2 + d1)
    IN  IF IsLetterAt(s, ix) /\ d1 >= 1 /\ CharAt(s, ix + 1 + d1) = "/" /\ d2 >= 1
        THEN ix + 2 + d1 + d2
        ELSE 0

\* (?:[A-Z]{4}[\s-])?[A-Z]\d+\/\d+ : the authority prefix is tried first
IdEndAt(s, ix) ==
    LET prefixed == /\ \A k \in 0..3 : IsLetterAt(s, ix + k)
                    /\ (IsWsAt(s, ix + 4) \/ CharAt(s, ix + 4) = "-")
    IN  IF prefixed /\ SerialEndAt(s, ix + 5) > 0
        THEN SerialEndAt(s, ix + 5)
        ELSE SerialEndAt(s, ix)

\* NOTAM[NRC]? at position i, or nothing
ActionSuffixEndAt(s, ix) ==
    IF LitAt(s, ix, <<"N", "O", "T", "A", "M">>)
    THEN IF ToUpperCase(CharAt(s, ix + 5)) \in {"N", "R", "C"} THEN ix + 6 ELSE ix + 5
    ELSE ix

\* notamPattern, /(?:^|\n)\s*((?:[A-Z]{4}[\s-])?[A-Z]\d+\/\d+)\s*(?:NOTAM[NRC]?)?/,
\* matched at position p
NotamPatternAt(s, p) ==
    LET anchored == p = 1 \/ CharAt(s, p) = "\n"
        q == IF p = 1 THEN 1 ELSE p + 1
        idStart == q + WsRun(s, q)
        idEnd == IdEndAt(s, idStart)
    IN  IF anchored /\ idEnd > 0
        THEN [idStart |-> idStart, idEnd |-> idEnd,
              end |-> ActionSuffixEndAt(s, idEnd + WsRun(s, idEnd))]
        ELSE [idStart |-> 0, idEnd |-> 0, end |-> 0]

\* text.split(notamPattern): [before, id1, content1, id2, content2, ...];
\* p is the start of the piece being cut, q the first position tried
RECURSIVE SplitFrom(_, _, _)
SplitFrom(s, p, q) ==
    LET starts == {k \in q..Len(s) : NotamPatternAt(s, k).end > 0}
    IN  IF starts = {} THEN <<SubSeq(s, p, Len(s))>>
        ELSE LET m == NotamPatternAt(s, Least(starts))
             IN  <<SubSeq(s, p, Least(starts) - 1), SubSeq(s, m.idStart, m.idEnd - 1)>>
                    \o SplitFrom(s, m.end, m.end)

Split(s) == SplitFrom(s, 1, 1)

\* parts[i].replace(/\s*NOTAM[NRC]?\s*$/i, '').trim()
RECURSIVE TrimEnd(_)
TrimEnd(s) == IF Len(s) > 0 /\ IsWsAt(s, Len(s)) THEN TrimEnd(SubSeq(s, 1, Len(s) - 1)) ELSE s

StripActionSuffix(s) ==
    LET t == TrimEnd(s)
        n == Len(t)
        cut == IF n >= 6 /\ LitAt(t, n - 5, <<"N", "O", "T", "A", "M">>) /\ t[n] \in {"N", "R", "C", "n", "r", "c"}
               THEN 6
               ELSE IF n >= 5 /\ LitAt(t, n - 4, <<"N", "O", "T", "A", "M">>) THEN 5 ELSE 0
    IN  IF cut = 0 THEN s ELSE TrimEnd(SubSeq(t, 1, n - cut))

NotamIdOf(part) == Trim(StripActionSuffix(part))

\* content.match(/\n\s*\n/): the index (0-based) of the match, -1 when none
EmptyLineIndex(str) ==
    LET starts == {p \in 1..Len(str) :
                     /\ str[p] = "\n"
                     /\ \E k \in (p + 1)..(p + WsRun(str, p + 1)) : str[k] = "\n"}
    IN  IF starts = {} THEN -1 ELSE Least(starts) - 1

TruncateAtEmptyLine(str) ==
    IF EmptyLineIndex(str) >= 0
    THEN Substring(str, 0, EmptyLineIndex(str))
    ELSE str

\* content.match(/E\)([\s\S]+?)(?=\n[A-Z]\)|$)/i): group 1, Null when none
ESection(str) ==
    LET n == Len(str)
        starts == {k \in 1..(n - 2) : ToUpperCase(str[k]) = "E" /\ str[k + 1] = ")"}
    IN  IF starts = {} THEN Null
        ELSE LET k == Least(starts)
                 ends == {j \in (k + 3)..(n + 1) :
                            \/ j = n + 1
                            \/ /\ str[j] = "\n"
                               /\ IsLetterAt(str, j + 1)
                               /\ CharAt(str, j + 2) = ")"}
             IN  SubSeq(str, k + 2, Least(ends) - 1)

\* /\bPSN\b/i.test(s)
HasPsnKeyword(s) ==
    \E k \in 1..Len(s) : LitAt(s, k, <<"P", "S", "N">>) /\ BoundaryAt(s, k) /\ BoundaryAt(s, k + 3)

\* /\CENTRED\s+ON\b/i.test(s); \C is the letter C
HasCentredKeyword(s) ==
    \E k \in 1..Len(s) :
        LET e == PhraseEndAt(s, k, <<<<"C", "E", "N", "T", "R", "E", "D">>, <<"O", "N">>>>) IN e > 0 /\ BoundaryAt(s, e)

\* the spellings of areaKeywordsPattern,
\* /\b(LIMITES?\s+LATERALES?|LATERAL\s+LIMITS?|AREA|WI\s+COORD)\b/i
AreaPhrases ==
    {<<<<"L", "I", "M", "I", "T", "E", "S">>, <<"L", "A", "T", "E", "R", "A", "L", "E", "S">>>>, <<<<"L", "I", "M", "I", "T", "E", "S">>, <<"L", "A", "T", "E", "R", "A", "L", "E">>>>,
     <<<<"L", "I", "M", "I", "T", "E">>, <<"L", "A", "T", "E", "R", "A", "L", "E", "S">>>>, <<<<"L", "I", "M", "I", "T", "E">>, <<"L", "A", "T", "E", "R", "A", "L", "E">>>>,
     <<<<"L", "A", "T", "E", "R", "A", "L">>, <<"L", "I", "M", "I", "T", "S">>>>, <<<<"L", "A", "T", "E", "R", "A", "L">>, <<"L", "I", "M", "I", "T">>>>,
     <<<<"A", "R", "E", "A">>>>, <<<<"W", "I">>, <<"C", "O", "O", "R", "D">>>>}

\* areaKeywordsPattern matched at position k: the end of the match, 0 when
\* none (at most one spelling ends on a word boundary)
AreaKeywordEndAt(s, k) ==
    LET ends == {PhraseEndAt(s, k, ph) : ph \in AreaPhrases}
        good == {e \in ends : e > 0 /\ BoundaryAt(s, e)}
    IN  IF BoundaryAt(s, k) /\ good # {} THEN Least(good) ELSE 0

\* areaExclusionPattern, /\bRESTRICTED\s+IN\s+AREA\b/i
AreaExclusionPatternTest(s) ==
    \E k \in 1..Len(s) :
        LET e == PhraseEndAt(s, k, <<<<"R", "E", "S", "T", "R", "I", "C", "T", "E", "D">>, <<"I", "N">>, <<"A", "R", "E", "A">>>>)
        IN  BoundaryAt(s, k) /\ e > 0 /\ BoundaryAt(s, e)

AreaKeywordsPatternTest(s) == \E k \in 1..Len(s) : AreaKeywordEndAt(s, k) > 0

\* areaKeywordsPattern.test(eContent) && !areaExclusionPattern.test(eContent)
HasAreaKeywords(s) == AreaKeywordsPatternTest(s) /\ ~AreaExclusionPatternTest(s)

\* areaSearchPattern.exec from lastIndex (0-based): the next match, as
\* [index, end] (0-based); index -1 when there is none
AreaSearchExec(s, lastIndex) ==
    LET starts == {k \in (lastIndex + 1)..Len(s) : AreaKeywordEndAt(s, k) > 0}
    IN  IF starts = {} THEN [index |-> -1, end |-> -1]
        ELSE [index |-> Least(starts) - 1, end |-> AreaKeywordEndAt(s, Least(starts)) - 1]

\* \d{lo,hi}(?:\.\d+)? followed by a letter of dirs, at position p: the end
\* after the letter, 0 when none
NumberDirEndAt(s, p, lo, hi, dirs) ==
    LET r == DigitRun(s, p)
        a == p + r
        f == IF CharAt(s, a) = "." THEN DigitRun(s, a + 1) ELSE 0
        b == IF f >= 1 THEN a + 1 + f ELSE a
    IN  IF r >= lo /\ r <= hi /\ ToUpperCase(CharAt(s, b)) \in dirs THEN b + 1 ELSE 0

\* (\d{4,7}(?:\.\d+)?[NS])\s+(\d{5,8}(?:\.\d+)?[EW]) matched at position p
CoordPatternAt(s, p) ==
    LET latEnd == NumberDirEndAt(s, p, 4, 7, {"N", "S"})
        lonStart == latEnd + WsRun(s, latEnd)
        end == NumberDirEndAt(s, lonStart, 5, 8, {"E", "W"})
    IN  IF latEnd > 0 /\ lonStart > latEnd /\ end > 0
        THEN [latEnd |-> latEnd, lonStart |-> lonStart, end |-> end]
        ELSE [latEnd |-> 0, lonStart |-> 0, end |-> 0]

\* CoordWithin40 that looks as far as the text goes
CoordAnywhere(after) ==
    \E k \in 0..(Len(after) - 1) : CoordPatternAt(after, k + 1).end > 0

\* /^.{0,40}?\d{4,7}(?:\.\d+)?[NS]\s+\d{5,8}(?:\.\d+)?[EW]/is.test(after)
CoordWithin40(after) ==
    \E k \in 0..40 : k < Len(after) /\ CoordPatternAt(after, k + 1).end > 0

\* coordPattern.exec from lastIndex (0-based): index and end (0-based) and
\* the two groups; index -1 when there is no further match
CoordPatternExec(s, lastIndex) ==
    LET starts == {p \in (lastIndex + 1)..Len(s) : CoordPatternAt(s, p).end > 0}
    IN  IF starts = {} THEN [index |-> -1, end |-> -1, g1 |-> << >>, g2 |-> << >>]
        ELSE LET p == Least(starts)
                 m == CoordPatternAt(s, p)
             IN  [index |-> p - 1, end |-> m.end - 1,
                  g1 |-> SubSeq(s, p, m.latEnd - 1),
                  g2 |-> SubSeq(s, m.lonStart, m.end - 1)]

\* /^\s*-\s*\d{4,7}/i.test(after)
DashThenDigits(after) ==
    LET a == 1 + WsRun(after, 1)
        b == a + 1 + WsRun(after, a + 1)
    IN  CharAt(after, a) = "-" /\ DigitRun(after, b) >= 4

\* IsStandalonePsn that holds of no coordinate
NeverStandalone(e, index, end) == FALSE

\* isStandalonePsn for the match [index, end) of eContent
IsStandalonePsn(e, index, end) ==
    /\ HasPsnKeyword(Substring(e, IF index - 10 > 0 THEN index - 10 ELSE 0, index))
    /\ ~DashThenDigits(SubstringFrom(e, end))

\* Number.prototype.toFixed(6) and toFixed(3) of an angle, as the sign and
\* the rounded magnitude in units of 1e-6 and 1e-3 degree.  A quotient by
\* 9/25 is never a tie; a tie of toFixed(3) (magnitude = 180 mod 360) is
\* rounded up here.
ToFixed6(v) ==
    LET a == IF v < 0 THEN -v ELSE v
    IN  <<v < 0, 25 * (a \div 9) + (50 * (a % 9) + 9) \div 18>>

ToFixed3(v) ==
    LET a == IF v < 0 THEN -v ELSE v
    IN  <<v < 0, (a + 180) \div 360>>

\* posKey and coarsePosKey
PosKey(coords) == <<ToFixed6(coords.lat), ToFixed6(coords.lon)>>
CoarsePosKey(coords) == <<ToFixed3(coords.lat), ToFixed3(coords.lon)>>

\* \d{4}[NS]\d{5}[EW] at position j
QualifierShapeAt(s, j) ==
    /\ \A k \in 0..3 : IsDigitAt(s, j + k)
    /\ IsNS(CharAt(s, j + 4))
    /\ \A k \in 5..9 : IsDigitAt(s, j + k)
    /\ IsEW(CharAt(s, j + 10))

\* /Q\).*?(\d{4}[NS]\d{5}[EW](?:\d{3})?)/ matched at position k: the start
\* and end of group 1, 0 when none; the dot does not cross a line feed
QualifierLineAt(s, k) ==
    LET js == {j \in (k + 2)..Len(s) :
                 /\ QualifierShapeAt(s, j)
                 /\ \A x \in (k + 2)..(j - 1) : s[x] # "\n"}
    IN  IF LitAt(s, k, <<"Q", ")">>) /\ js # {}
        THEN LET j == Least(js)
             IN  [start |-> j, end |-> IF DigitRun(s, j + 11) >= 3 THEN j + 14 ELSE j + 11]
        ELSE [start |-> 0, end |-> 0]

\* content.matchAll(...): group 1 of every match, in order
RECURSIVE QualifierLineMatchesFrom(_, _)
QualifierLineMatchesFrom(s, from) ==
    LET starts == {k \in from..Len(s) : QualifierLineAt(s, k).end > 0}
    IN  IF starts = {} THEN << >>
        ELSE LET m == QualifierLineAt(s, Least(starts))
             IN  <<SubSeq(s, m.start, m.end - 1)>> \o QualifierLineMatchesFrom(s, m.end)

QualifierLineMatches(str) == QualifierLineMatchesFrom(str, 1)

\* the qualifierCoords of lines 371-386
RECURSIVE QualifierCoords(_)
QualifierCoords(matches) ==
    IF matches = << >> THEN << >>
    ELSE LET qualifierCoordStr == Head(matches)
             coords == ParseQualifierLineCoordinate(qualifierCoordStr)
         IN  (IF coords = Null THEN << >>
              ELSE <<[original |-> qualifierCoordStr, lat |-> coords.lat, lon |-> coords.lon,
                      radius |-> coords.radius, type |-> "qualifierLine"]>>)
               \o QualifierCoords(Tail(matches))

\* [A-Z]{4} at position j
FourLettersAt(s, j) == \A k \in 0..3 : IsLetterAt(s, j + k)

\* the codes of (?:\s+[A-Z]{4})* from position e on
RECURSIVE MoreCodes(_, _)
MoreCodes(s, e) ==
    LET j == e + WsRun(s, e)
    IN  IF j > e /\ FourLettersAt(s, j)
        THEN <<SubSeq(s, j, j + 3)>> \o MoreCodes(s, j + 4)
        ELSE << >>

\* content.match(/A\)\s*([A-Z]{4}(?:\s+[A-Z]{4})*)/i), group 1 split at \s+
IcaoCodes(str) ==
    LET starts == {k \in 1..Len(str) :
                     /\ LitAt(str, k, <<"A", ")">>)
                     /\ FourLettersAt(str, k + 2 + WsRun(str, k + 2))}
    IN  IF starts = {} THEN << >>
        ELSE LET j == Least(starts) + 2 + WsRun(str, Least(starts) + 2)
             IN  <<SubSeq(str, j, j + 3)>> \o MoreCodes(str, j + 4)

\* \d{lo,hi} followed, after white space if gap, by a letter of dirs
DigitsDirEndAt(s, p, lo, hi, dirs, gap) ==
    LET r == DigitRun(s, p)
        b == IF gap THEN p + r + WsRun(s, p + r) ELSE p + r
    IN  IF r >= lo /\ r <= hi /\ ToUpperCase(CharAt(s, b)) \in dirs THEN b + 1 ELSE 0

\* \d{4,7}[NS]\s+\d{5,8}[EW] (gap: \d{4,7}\s*[NS]\s+\d{5,8}\s*[EW]) at p
PlainCoordEndAt(s, p, gap) ==
    LET latEnd == DigitsDirEndAt(s, p, 4, 7, {"N", "S"}, gap)
        lonStart == latEnd + WsRun(s, latEnd)
    IN  IF latEnd > 0 /\ lonStart > latEnd
        THEN DigitsDirEndAt(s, lonStart, 5, 8, {"E", "W"}, gap)
        ELSE 0

\* /\(\s*\d{4,7}\s*[NS]\s+\d{5,8}\s*[EW]\s*\)/i.test(s)
HasClosingCoord(s) ==
    \E k \in 1..Len(s) :
        LET e == PlainCoordEndAt(s, k + 1 + WsRun(s, k + 1), TRUE)
        IN  s[k] = "(" /\ e > 0 /\ CharAt(s, e + WsRun(s, e)) = ")"

\* \s*[-]\s* at position e, then a plain coordinate: its end, 0 when none
DashCoordEndAt(s, e) ==
    LET d == e + WsRun(s, e)
    IN  IF e > 0 /\ CharAt(s, d) = "-"
        THEN PlainCoordEndAt(s, d + 1 + WsRun(s, d + 1), FALSE)
        ELSE 0

\* /\d{4,7}[NS]\s+\d{5,8}[EW]\s*[-]\s*\d{4,7}[NS]\s+\d{5,8}[EW]/i.test(s)
HasDashConnectedCoords(s) ==
    \E p \in 1..Len(s) : DashCoordEndAt(s, PlainCoordEndAt(s, p, FALSE)) > 0

\* the lines of s (split at line feeds)
RECURSIVE SplitLines(_)
SplitLines(s) ==
    IF ~Includes(s, "\n") THEN <<s>>
    ELSE LET ix == Least({k \in 1..Len(s) : s[k] = "\n"})
         IN  <<SubSeq(s, 1, ix - 1)>> \o SplitLines(SubSeq(s, ix + 1, Len(s)))

RECURSIVE JoinLines(_)
JoinLines(lines) ==
    IF lines = << >> THEN << >>
    ELSE IF Len(lines) = 1 THEN lines[1]
    ELSE lines[1] \o <<"\n">> \o JoinLines(Tail(lines))

\* cleanNotamContent
cleanNotamContent(str) ==
    JoinLines(SelectSeq([k \in 1..Len(SplitLines(str)) |-> Trim(SplitLines(str)[k])],
                        LAMBDA line : Len(line) > 0))

---------------------------------------------------------------------------
(* Bulletins passed to parseNotams                                         *)
(* A call is described by its notices: the id line, the number of Q)       *)
(* lines, the words of the E) section and whether A) and F) lines frame    *)
(* it.  BulletinText writes the description out as the text parsed.        *)

\* the words of an E) section
Word(name) ==
    CASE name = "A" -> <<"4", "8", "4", "0", "2", "4", "N", " ", "0", "0", "3", "0", "4", "4", "1", "E">>
      [] name = "B" -> <<"4", "9", "4", "0", "2", "4", "N", " ", "0", "0", "3", "0", "4", "4", "1", "E">>
      [] name = "C" -> <<"4", "9", "4", "0", "2", "4", "N", " ", "0", "0", "4", "0", "4", "4", "1", "E">>
      [] name = "D" -> <<"4", "8", "4", "0", "2", "4", "N", " ", "0", "0", "4", "0", "4", "4", "1", "E">>
      [] name = "Q" -> <<"4", "8", "4", "5", "0", "0", "N", " ", "0", "0", "2", "0", "7", "0", "0", "E">>
      [] name = "An" -> <<"4", "8", "4", "0", "2", "4", "1", "N", " ", "0", "0", "3", "0", "4", "4", "1", "E">>
      [] name = "U" -> <<"4", "8", "4", "0", "N", " ", "0", "0", "3", "0", "4", "E">>
      [] name = "Aj" -> <<"4", "8", "4", "0", "2", "4", "N", "0", "0", "3", "0", "4", "4", "1", "E">>
      [] name = "E1" -> <<"4", "8", "4", "0", "2", "4", "N", " ", "1", "7", "9", "0", "4", "4", "1", "0", "E">>
      [] name = "W1" -> <<"4", "9", "4", "0", "2", "4", "N", " ", "1", "7", "9", "0", "4", "4", "1", "0", "W">>
      [] name = "E2" -> <<"5", "0", "4", "0", "2", "4", "N", " ", "1", "7", "8", "0", "4", "4", "1", "0", "E">>
      [] name = "W2" -> <<"4", "8", "4", "0", "2", "4", "N", " ", "1", "7", "8", "0", "4", "4", "1", "0", "W">>
      [] name = "PSN" -> <<"P", "S", "N", " ">>
      [] name = "AREA" -> <<"A", "R", "E", "A", " ">>
      [] name = "CENTRED" -> <<"C", "E", "N", "T", "R", "E", "D", " ", "O", "N", " ">>
      [] name = "OBST" -> <<"O", "B", "S", "T", " ", "L", "G", "T", " ", "A", "T", " ">>
      [] name = "CENTER" -> <<"C", "E", "N", "T", "E", "R", " ">>
      [] name = "LIMITS" -> <<"L", "A", "T", "E", "R", "A", "L", " ", "L", "I", "M", "I", "T", "S", " ">>
      [] name = "RESTRICTED" -> <<"R", "E", "S", "T", "R", "I", "C", "T", "E", "D", " ", "I", "N", " ", "A", "R", "E", "A", ".", " ">>
      [] name = "SUBA" -> <<"\n", "A", ")", " ">>
      [] name = "FAR" -> <<"C", "L", "O", "S", "E", "D", " ", "D", "U", "E", " ", "T", "O", " ", "W", "I", "P", ".", " ", "C", "T", "C", " ", "T", "W", "R", " ", "F", "O", "R", " ", "I", "N", "F", "O", ".", " ">>
      [] name = "," -> <<",", " ">>
      [] name = "-" -> <<" ", "-", " ">>
      [] name = "(" -> <<"(">>
      [] name = ")" -> <<")">>
      [] name = "BLANK" -> <<"\n", "\n", "C", "R", "E", "A", "T", "E", "D", ":", " ">>

\* the names of the coordinate tokens that parseDMSCoordinate decodes, and
\* of the key words that trigger the extraction
Decodable == {"A", "B", "C", "D", "Q", "An", "E1", "W1", "E2", "W2"}
Keywords == {"PSN", "AREA", "CENTRED", "LIMITS"}

RECURSIVE Concat(_)
Concat(words) == IF words = << >> THEN << >> ELSE Head(words) \o Concat(Tail(words))

EText(e) == Concat([k \in 1..Len(e) |-> Word(e[k])])

IdLine(id) ==
    CASE id = 1 -> <<"A", "1", "/", "2", "5">>
      [] id = 2 -> <<"L", "F", "F", "F", "-", "B", "2", "/", "2", "5", " ", "N", "O", "T", "A", "M", "N">>
      [] id = 3 -> <<"L", "F", "F", "F", " ", "C", "3", "/", "2", "5">>
      [] id = 4 -> <<"D", "4", "/", "2", "5", " ", "(", "S", "E", "E", ")">>

\* the id parseNotams is to report for an id line
IdText(id) ==
    CASE id = 1 -> <<"A", "1", "/", "2", "5">>
      [] id = 2 -> <<"L", "F", "F", "F", "-", "B", "2", "/", "2", "5">>
      [] id = 3 -> <<"L", "F", "F", "F", " ", "C", "3", "/", "2", "5">>
      [] id = 4 -> <<"D", "4", "/", "2", "5">>

QLine(k) ==
    CASE k = 1 -> <<"Q", ")", " ", "L", "F", "F", "F", "/", "Q", "O", "B", "C", "E", "/", "4", "8", "4", "5", "N", "0", "0", "2", "0", "7", "E", "0", "0", "5">>
      [] OTHER -> <<"Q", ")", " ", "L", "F", "F", "F", "/", "Q", "O", "B", "C", "E", "/", "4", "8", "5", "0", "N", "0", "0", "2", "1", "0", "E">>

NoticeLines(n) ==
    [k \in 1..n.q |-> QLine(k)]
      \o (IF n.f THEN <<<<"A", ")", " ", "L", "F", "P", "G", " ", "L", "F", "P", "O">>>> ELSE << >>)
      \o (IF n.e # << >> THEN <<<<"E", ")", " ">> \o EText(n.e)>> ELSE << >>)
      \o (IF n.f THEN <<<<"F", ")", " ", "S", "F", "C">>>> ELSE << >>)

BodyText(n) == JoinLines(NoticeLines(n))

NoticeText(n) == IdLine(n.id) \o <<"\n">> \o BodyText(n)

RECURSIVE BulletinText(_)
BulletinText(notices) ==
    IF notices = << >> THEN << >>
    ELSE IF Len(notices) = 1 THEN NoticeText(notices[1])
    ELSE NoticeText(notices[1]) \o <<"\n", "\n">> \o BulletinText(Tail(notices))

MaxItems == 3
MaxNotices == 3
MaxQ == 3

\* the items of a coordinate list and the ways of linking them
CoreItems == {<<"A">>, <<"B">>, <<"C">>, <<"An">>, <<"U">>, <<"PSN", "A">>}
Links == {",", "-"}

RECURSIVE Linked(_, _)
Linked(items, link) ==
    IF items = << >> THEN << >>
    ELSE IF Len(items) = 1 THEN items[1]
    ELSE items[1] \o <<link>> \o Linked(Tail(items), link)

\* every list of at most MaxItems items, behind each lead
CoreSections ==
    {lead \o Linked(items, link) :
        lead \in {<< >>, <<"CENTRED">>, <<"AREA">>},
        items \in UNION {[1..n -> CoreItems] : n \in 0..MaxItems},
        link \in Links}

\* rings of three and four corners: open, closed by the first corner, by
\* the first corner in parentheses, or by a point next to the first corner;
\* linked by commas, by dashes, or by a single dash
RingCorners == {<<"A", "B", "C">>, <<"A", "B", "C", "D">>}
RingClosings == {<< >>, <<"A">>, <<"(", "A", ")">>, <<"An">>}

OneDash(corners) ==
    <<corners[1], ",", corners[2], "-">> \o Linked([k \in 1..(Len(corners) - 2) |-> <<corners[k + 2]>>], ",")

RingSections ==
    {lead \o body \o (IF closing = << >> THEN << >> ELSE <<link>> \o closing) :
        lead \in {<<"CENTRED">>, <<"AREA">>, <<"PSN">>},
        body \in {Linked([k \in 1..Len(c) |-> <<c[k]>>], l) : c \in RingCorners, l \in Links}
                   \cup {OneDash(c) : c \in RingCorners},
        link \in Links,
        closing \in RingClosings}

\* area key words with and without a coordinate within reach, after a
\* coordinate that lies before them
AreaSections ==
    {pre \o lead \o list :
        pre \in {<< >>, <<"D", ",">>, <<"PSN", "D", ",">>},
        lead \in {<<"AREA">>, <<"AREA", "FAR", "AREA">>, <<"AREA", "FAR", "OBST">>},
        list \in {<< >>, <<"A", ",", "B", ",", "C">>}}

\* rings written out twice, the second time from a point next to the first
\* corner
RepeatedSections ==
    {lead \o Linked([k \in 1..Len(c) |-> <<c[k]>>], ",") :
        lead \in {<<"CENTRED">>, <<"AREA">>},
        c \in {<<"A", "B", "A", "A", "B">>, <<"A", "B", "A", "An", "B">>,
                <<"A", "B", "C", "A", "A", "B", "C">>}}

\* areas whose corners lie on both sides of the 180th meridian, crossing it
\* once and twice
AntimeridianSections ==
    {<<"AREA">> \o Linked([k \in 1..Len(c) |-> <<c[k]>>], link) :
        c \in {<<"E1", "W1", "W2">>, <<"E1", "W1", "E2", "W2">>},
        link \in Links}

\* two rings, each closed by its first corner, in one section
TwoRingSections ==
    {lead \o Linked([k \in 1..(Len(c) + 5) |->
                        <<(c \o <<c[1], "E1", "W1", "W2", "E1">>)[k]>>], link) :
        lead \in {<<"CENTRED">>, <<"AREA">>},
        c \in RingCorners,
        link \in Links}

\* the phrase RESTRICTED IN AREA before a list of coordinates, alone and
\* with a further area key word
ExclusionSections ==
    {lead \o <<"A", ",", "B", ",", "C">> :
        lead \in {<<"LIMITS">>, <<"RESTRICTED">>, <<"RESTRICTED", "LIMITS">>,
                   <<"RESTRICTED", "PSN", "D", ",", "LIMITS">>}}

\* sections with an enumerated item A) on a line of its own, for notices
\* with an A) line, and sections for a notice whose id line ends in "(SEE)"
SubItemSections ==
    {<<"PSN", "A", ",", "SUBA", "PSN", "B">>, <<"AREA", "A", ",", "SUBA", "B", ",", "C">>}

RemarkSections == {<<"PSN", "A">>, <<"AREA", "A", ",", "B", ",", "C">>}

\* sections for the fallback to the Q) line
FallbackSections ==
    {<< >>, <<"A">>, <<"CENTRED">>, <<"CENTRED", "U">>, <<"PSN", "A">>, <<"OBST", "BLANK", "PSN", "A">>,
     <<"PSN", "Aj">>, <<"OBST", "A">>, <<"CENTER", "A">>, <<"AREA">>}

\* the bodies of the notices of a bulletin of several notices
Bodies ==
    {[q |-> 1, e |-> <<"PSN", "A", ",", "PSN", "B">>, f |-> TRUE],
     [q |-> 1, e |-> << >>, f |-> FALSE],
     [q |-> 0, e |-> <<"A">>, f |-> TRUE],
     [q |-> 0, e |-> <<"AREA", "A", "-", "B", "-", "C", "-", "A", ",", "D">>, f |-> TRUE]}

Ids == {1, 2}

\* bulletins of two notices at the place of the Q) line, the one with
\* location indicators and the other without: two markers at one location
SharedLocationBulletins ==
    {<<[id |-> 1, q |-> 1, e |-> << >>, f |-> FALSE],
       [id |-> 2, q |-> 0, e |-> <<"PSN", "Q">>, f |-> TRUE]>>,
     <<[id |-> 1, q |-> 1, e |-> << >>, f |-> FALSE],
       [id |-> 2, q |-> 1, e |-> << >>, f |-> TRUE],
       [id |-> 3, q |-> 0, e |-> <<"PSN", "Q">>, f |-> FALSE]>>}

Notice(id, body) == [id |-> id, q |-> body.q, e |-> body.e, f |-> body.f]

Bulletins ==
    {<<[id |-> 1, q |-> 0, e |-> e, f |-> FALSE]>> :
        e \in CoreSections \cup RingSections \cup AreaSections \cup RepeatedSections
                \cup AntimeridianSections \cup TwoRingSections \cup ExclusionSections}
      \cup {<<[id |-> 3, q |-> q, e |-> e, f |-> f]>> :
              q \in 0..MaxQ, e \in FallbackSections, f \in BOOLEAN}
      \cup {<<[id |-> 1, q |-> 0, e |-> e, f |-> TRUE]>> : e \in SubItemSections}
      \cup {<<[id |-> 4, q |-> 0, e |-> e, f |-> TRUE]>> : e \in RemarkSections}
      \cup SharedLocationBulletins
      \cup UNION {[1..n -> {Notice(id, b) : id \in Ids, b \in Bodies}] : n \in 0..MaxNotices}

ParseCalls == {[fn |-> "parseNotams", notices |-> b] : b \in Bulletins}

---------------------------------------------------------------------------
(* parseNotams                                                             *)

\* SeenId that knows no id
SeenNever(id, seen) == FALSE

\* seenIds.has(notamId)
SeenId(id, seen) == id \in seen

\* if (eContent): a string that is not empty
Truthy(e) == e # Null /\ e # << >>

\* the if of line 274
Extracts(e) == HasPsnKeyword(e) \/ HasCentredKeyword(e) \/ HasAreaKeywords(e)

\* LastIndexAfter that stays where the match begins
LastIndexStuck(m) == m.index

\* lastIndex after a match
LastIndexAfter(m) == m.end

\* InClosedGroup that finds no position
InNoClosedGroup(coords, closed) == FALSE

\* closedGroupPositions.has(coarsePosKey)
InClosedGroup(coords, closed) == CoarsePosKey(coords) \in closed

\* CollectGroups without the test of line 362
CollectAlways(groups, coords) == Append(groups, coords)

\* lines 361-364
CollectGroups(groups, coords) ==
    IF Len(coords) > 0 THEN Append(groups, coords) ELSE groups

\* lines 399-424
IsClosed(groupCoords) ==
    LET firstCoord == groupCoords[1]
        lastCoord == groupCoords[Len(groupCoords)]
        dLat == firstCoord.lat - lastCoord.lat
        dLon == firstCoord.lon - lastCoord.lon
    IN  /\ (IF dLat < 0 THEN -dLat ELSE dLat) < Deg \div 1000
        /\ (IF dLon < 0 THEN -dLon ELSE dLon) < Deg \div 1000

IsPolygon(groupCoords, e) ==
    /\ Len(groupCoords) >= 3
    /\ Truthy(e)
    /\ \/ HasAreaKeywords(e)
       \/ HasClosingCoord(e)
       \/ (HasDashConnectedCoords(e) /\ Len(groupCoords) >= 4)
       \/ IsClosed(groupCoords)

\* lines 426-432, for every group
Records(id, body, e, groups) ==
    [g \in 1..Len(groups) |->
        [id |-> id,
         fullContent |-> cleanNotamContent(body),
         coordinates |-> groups[g],
         icaoCodes |-> IcaoCodes(body),
         isPolygon |-> IsPolygon(groups[g], e)]]

\* Pushed that puts the records in front
Prepended(list, records) == records \o list

\* notams.push, once per record
Pushed(list, records) == list \o records

parseVars ==
    <<text, parts, i, seenIds, notams, pc, notamId, content, eContent,
      extractionStartIndex, areaSearchLastIndex, coordLastIndex, groupClosed,
      closedGroupPositions, coordinates, seenPositions, coordinateGroups>>

scanVars ==
    <<extractionStartIndex, areaSearchLastIndex, coordLastIndex, groupClosed,
      closedGroupPositions, coordinates, seenPositions, coordinateGroups>>

\* the locals of one turn of the notice loop, as declared
FreshLocals ==
    /\ extractionStartIndex = 0
    /\ areaSearchLastIndex = 0
    /\ coordLastIndex = 0
    /\ groupClosed = FALSE
    /\ closedGroupPositions = {}
    /\ coordinates = << >>
    /\ seenPositions = {}
    /\ coordinateGroups = << >>

\* nothing has been displayed
NoMarkers ==
    /\ showAll = FALSE
    /\ locationGroups = << >>
    /\ radiusCircle = Null
    /\ circles = << >>
    /\ popup = Null

Entered ==
    /\ parts = << >>
    /\ i = 1
    /\ seenIds = {}
    /\ notams = << >>
    /\ notamId = << >>
    /\ content = << >>
    /\ eContent = Null
    /\ FreshLocals

Init ==
    /\ call \in ParseCalls
    /\ ret = <<Pending>>
    /\ text = BulletinText(call.notices)
    /\ pc = "split"
    /\ Entered
    /\ NoMarkers

\* line 240
SplitText ==
    /\ pc = "split"
    /\ parts' = Split(text)
    /\ pc' = "notice"
    /\ UNCHANGED <<call, mapVars, showAll, locationGroups, ret, text, i, seenIds, notams, notamId, content, eContent, scanVars>>

\* lines 243-246: a repeated id
SkipSeenId ==
    /\ pc = "notice"
    /\ i < Len(parts)
    /\ SeenId(NotamIdOf(parts[i + 1]), seenIds)
    /\ i' = i + 2
    /\ UNCHANGED <<call, mapVars, showAll, locationGroups, ret, text, parts, seenIds, notams, pc, notamId, content, eContent, scanVars>>

\* a set of positions that outlives the notice
SharedSeenPositions == seenPositions

\* line 258, const seenPositions = new Set()
NewSeenPositions == {}

\* lines 243-289, up to the first loop
BeginNotice ==
    /\ pc = "notice"
    /\ i < Len(parts)
    /\ ~SeenId(NotamIdOf(parts[i + 1]), seenIds)
    /\ LET id == NotamIdOf(parts[i + 1])
           body == TruncateAtEmptyLine(IF i + 2 <= Len(parts) THEN parts[i + 2] ELSE << >>)
           e == ESection(body)
       IN  /\ notamId' = id
           /\ seenIds' = seenIds \cup {id}
           /\ content' = body
           /\ eContent' = e
           /\ pc' = IF Truthy(e) /\ Extracts(e)
                    THEN IF HasAreaKeywords(e) THEN "area" ELSE "scan"
                    ELSE "collect"
    /\ extractionStartIndex' = 0
    /\ areaSearchLastIndex' = 0
    /\ coordLastIndex' = 0
    /\ groupClosed' = FALSE
    /\ closedGroupPositions' = {}
    /\ coordinates' = << >>
    /\ seenPositions' = NewSeenPositions
    /\ coordinateGroups' = << >>
    /\ UNCHANGED <<call, mapVars, showAll, locationGroups, ret, text, parts, i, notams>>

\* lines 282-288: one turn of the search for the area key word
AreaSearch ==
    /\ pc = "area"
    /\ LET areaMatch == AreaSearchExec(eContent, areaSearchLastIndex)
       IN  IF areaMatch.index < 0
           THEN /\ pc' = "scan"
                /\ UNCHANGED <<extractionStartIndex, areaSearchLastIndex>>
           ELSE /\ areaSearchLastIndex' = LastIndexAfter(areaMatch)
                /\ IF CoordWithin40(SubstringFrom(eContent, areaMatch.end))
                   THEN extractionStartIndex' = areaMatch.index /\ pc' = "scan"
                   ELSE UNCHANGED <<extractionStartIndex, pc>>
    /\ UNCHANGED <<call, mapVars, showAll, locationGroups, ret, text, parts, i, seenIds, notams, notamId, content, eContent,
                   coordLastIndex, groupClosed, closedGroupPositions, coordinates,
                   seenPositions, coordinateGroups>>

\* the coordinate pushed at lines 313-318 and 350-355
Coordinate(coordStr, coords) ==
    [original |-> Trim(coordStr), lat |-> coords.lat, lon |-> coords.lon, type |-> "psn"]

\* GroupPushed that loses the group
GroupDropped(groups, members) == groups

\* line 339, coordinateGroups.push([...coordinates])
GroupPushed(groups, members) == Append(groups, members)

\* SeenCleared that keeps the positions
SeenKept(seen) == seen

\* line 344, seenPositions.clear()
SeenCleared(seen) == {}

\* lines 303-356: the match and what parseDMSCoordinate made of it
Classify(match, coordStr, coords) ==
    IF coords = Null
    THEN UNCHANGED <<groupClosed, closedGroupPositions, coordinates, seenPositions,
                     coordinateGroups>>
    ELSE IF IsStandalonePsn(eContent, match.index, match.end)
    THEN /\ coordinateGroups' = Append(coordinateGroups, <<Coordinate(coordStr, coords)>>)
         /\ UNCHANGED <<groupClosed, closedGroupPositions, coordinates, seenPositions>>
    ELSE IF match.index < extractionStartIndex
    THEN UNCHANGED <<groupClosed, closedGroupPositions, coordinates, seenPositions,
                     coordinateGroups>>
    ELSE IF InClosedGroup(coords, closedGroupPositions)
    THEN UNCHANGED <<groupClosed, closedGroupPositions, coordinates, seenPositions,
                     coordinateGroups>>
    ELSE IF PosKey(coords) \in seenPositions
    THEN IF ~groupClosed /\ Len(coordinates) > 0
         THEN /\ coordinateGroups' = GroupPushed(coordinateGroups, coordinates)
              /\ closedGroupPositions' =
                   closedGroupPositions
                     \cup {CoarsePosKey(coordinates[k]) : k \in 1..Len(coordinates)}
              /\ coordinates' = << >>
              /\ seenPositions' = SeenCleared(seenPositions)
              /\ groupClosed' = TRUE
         ELSE UNCHANGED <<groupClosed, closedGroupPositions, coordinates, seenPositions,
                          coordinateGroups>>
    ELSE /\ groupClosed' = FALSE
         /\ seenPositions' = seenPositions \cup {PosKey(coords)}
         /\ coordinates' = Append(coordinates, Coordinate(coordStr, coords))
         /\ UNCHANGED <<closedGroupPositions, coordinateGroups>>

\* lines 301-302
Decode(match, coordStr) == Classify(match, coordStr, ParseDMSCoordinate(coordStr))

\* line 300 and the body of the loop
Scanned(match) ==
    IF match.index < 0
    THEN /\ pc' = "collect"
         /\ UNCHANGED <<coordLastIndex, groupClosed, closedGroupPositions, coordinates,
                        seenPositions, coordinateGroups>>
    ELSE /\ pc' = "scan"
         /\ coordLastIndex' = LastIndexAfter(match)
         /\ Decode(match, match.g1 \o <<" ">> \o match.g2)

\* lines 300-357: one turn of the scan for coordinates
ScanCoordinate ==
    /\ pc = "scan"
    /\ Scanned(CoordPatternExec(eContent, coordLastIndex))
    /\ UNCHANGED <<call, mapVars, showAll, locationGroups, ret, text, parts, i, seenIds, notams, notamId, content, eContent,
                   extractionStartIndex, areaSearchLastIndex>>

\* NeedsFallback that holds of every notice
AlwaysFallback(groups) == TRUE

\* line 370, if (coordinateGroups.length === 0)
NeedsFallback(groups) == Len(groups) = 0

\* lines 361-364 and the test of line 370
CollectRemaining ==
    /\ pc = "collect"
    /\ coordinateGroups' = CollectGroups(coordinateGroups, coordinates)
    /\ pc' = IF NeedsFallback(CollectGroups(coordinateGroups, coordinates)) THEN "fallback" ELSE "emit"
    /\ UNCHANGED <<call, mapVars, showAll, locationGroups, ret, text, parts, i, seenIds, notams, notamId, content, eContent,
                   extractionStartIndex, areaSearchLastIndex, coordLastIndex, groupClosed,
                   closedGroupPositions, coordinates, seenPositions>>

\* lines 370-390
QualifierFallback ==
    /\ pc = "fallback"
    /\ LET qualifierCoords == QualifierCoords(QualifierLineMatches(content))
       IN  coordinateGroups' = IF Len(qualifierCoords) > 0
                               THEN Append(coordinateGroups, qualifierCoords)
                               ELSE coordinateGroups
    /\ pc' = "emit"
    /\ UNCHANGED <<call, mapVars, showAll, locationGroups, ret, text, parts, i, seenIds, notams, notamId, content, eContent,
                   extractionStartIndex, areaSearchLastIndex, coordLastIndex, groupClosed,
                   closedGroupPositions, coordinates, seenPositions>>

\* lines 392-433, and the step of the notice loop
EmitRecords ==
    /\ pc = "emit"
    /\ notams' = Pushed(notams, Records(notamId, content, eContent, coordinateGroups))
    /\ i' = i + 2
    /\ pc' = "notice"
    /\ UNCHANGED <<call, mapVars, showAll, locationGroups, ret, text, parts, seenIds, notamId, content, eContent, scanVars>>

\* line 436
Return ==
    /\ pc = "notice"
    /\ i >= Len(parts)
    /\ pc' = "done"
    /\ ret' = notams
    /\ UNCHANGED <<call, mapVars, showAll, locationGroups, text, parts, i, seenIds, notams, notamId, content, eContent, scanVars>>

Next ==
    \/ SplitText
    \/ SkipSeenId
    \/ BeginNotice
    \/ AreaSearch
    \/ ScanCoordinate
    \/ CollectRemaining
    \/ QualifierFallback
    \/ EmitRecords
    \/ Return

Spec == Init /\ [][Next]_vars

\* where parseNotams stands: the statement and the indices of its loops
position == <<pc, i, areaSearchLastIndex, coordLastIndex>>

\* parseNotams, once called, keeps running until it has returned: weak
\* fairness of Next, which can take a step exactly while pc # "done"
FairSpec == Spec /\ ([]<>(pc = "done") \/ []<><<Next>>_position)

---------------------------------------------------------------------------
(* Properties of parseNotams                                               *)

\* the ids of the records of a list
RecordIds(list) == {list[k].id : k \in 1..Len(list)}

\* where in the bulletin an id stands for the first time, 0 when nowhere
FirstIndex(idText) ==
    LET ks == {k \in 1..Len(call.notices) : IdText(call.notices[k].id) = idText}
    IN  IF ks = {} THEN 0 ELSE Least(ks)

\* the words of an E) section up to the empty line
RECURSIVE Visible(_)
Visible(e) ==
    IF e = << >> \/ Head(e) = "BLANK" THEN << >> ELSE <<Head(e)>> \o Visible(Tail(e))

WordsOf(e) == {e[k] : k \in 1..Len(e)}

\* a notice without a Q) line, and without a key word or without a
\* coordinate that decodes in its E) section
YieldsNone(n) ==
    /\ n.q = 0
    /\ \/ WordsOf(Visible(n.e)) \cap Keywords = {}
       \/ WordsOf(Visible(n.e)) \cap Decodable = {}

\* C1: every record has at least one coordinate; a notice whose scan and
\* fallback leave no group adds no record; and a notice that is written
\* without a Q) line and without key word or decodable coordinate in E) has
\* no record in the list returned.
C1_RecordsHaveCoordinates ==
    /\ [](\A k \in 1..Len(notams) : Len(notams[k].coordinates) > 0)
    /\ [][(pc = "emit" /\ coordinateGroups = << >>) => notams' = notams]_vars
    /\ [](pc = "done" =>
            \A k \in 1..Len(call.notices) :
                (FirstIndex(IdText(call.notices[k].id)) = k /\ YieldsNone(call.notices[k]))
                    => IdText(call.notices[k].id) \notin RecordIds(ret))

\* a bulletin returned with records, one of whose notices yields none
C1_Witness ==
    /\ pc = "done"
    /\ Len(ret) > 0
    /\ \E k \in 1..Len(call.notices) :
          /\ FirstIndex(IdText(call.notices[k].id)) = k
          /\ YieldsNone(call.notices[k])
          /\ call.notices[k].e # << >>

\* the coordinate texts a notice holds: the coordinate words of its E)
\* section and the last field of its Q) lines
Originals(n) ==
    {Word(w) : w \in WordsOf(n.e) \cap (Decodable \cup {"U"})}
      \cup {SubstringFrom(QLine(k), 14) : k \in 1..n.q}

\* the body of a notice as parseNotams reports it
ReportedContent(n) == cleanNotamContent(TruncateAtEmptyLine(BodyText(n)))

DerivedFrom(record, n) ==
    /\ record.fullContent = ReportedContent(n)
    /\ \A c \in 1..Len(record.coordinates) : record.coordinates[c].original \in Originals(n)

\* C2: every record returned carries the content and coordinates of the
\* first notice written with its id, and the notice loop, standing at an id
\* it has seen, adds no record and moves on to the next notice.
C2_FirstOccurrenceOnly ==
    /\ [](pc = "done" =>
            \A k \in 1..Len(ret) :
                /\ FirstIndex(ret[k].id) > 0
                /\ DerivedFrom(ret[k], call.notices[FirstIndex(ret[k].id)]))
    /\ [][(pc = "notice" /\ i < Len(parts) /\ NotamIdOf(parts[i + 1]) \in seenIds)
            => (notams' = notams /\ pc' = "notice" /\ i' = i + 2 /\ seenIds' = seenIds)]_vars

\* an id written twice with different bodies, the second with coordinates of
\* its own, and records returned for it
C2_Witness ==
    /\ pc = "done"
    /\ \E j, k \in 1..Len(call.notices) :
          /\ j < k
          /\ call.notices[j].id = call.notices[k].id
          /\ ~YieldsNone(call.notices[k])
          /\ Originals(call.notices[k]) \ Originals(call.notices[j]) # {}
          /\ IdText(call.notices[j].id) \in RecordIds(ret)

\* C3: in the list returned the records stand in the order in which their
\* ids first stand in the bulletin, and no record of another id stands
\* between two records of one id.
C3_FirstAppearanceOrder ==
    pc = "done" =>
        /\ \A a, b \in 1..Len(ret) :
              (a < b /\ ret[a].id # ret[b].id)
                  => (0 < FirstIndex(ret[a].id) /\ FirstIndex(ret[a].id) < FirstIndex(ret[b].id))
        /\ \A a, b, c \in 1..Len(ret) :
              (a < b /\ b < c /\ ret[a].id = ret[c].id) => ret[b].id = ret[a].id

\* two ids returned, one of them with several records
C3_Witness ==
    /\ pc = "done"
    /\ \E a, b, c \in 1..Len(ret) :
          a < b /\ b < c /\ ret[a].id = ret[b].id /\ ret[b].id # ret[c].id

\* every loop moves on through what it reads
LoopsAdvance ==
    /\ i' >= i
    /\ (pc \in {"notice", "emit"} /\ pc' = "notice") => i' > i
    /\ (pc = "area" /\ pc' = "area") => areaSearchLastIndex' > areaSearchLastIndex
    /\ (pc = "scan" /\ pc' = "scan") => coordLastIndex' > coordLastIndex

\* the scan steps over a token that parseDMSCoordinate does not decode
UndecodableAt(match) ==
    match.index >= 0 /\ ParseDMSCoordinate(match.g1 \o <<" ">> \o match.g2) = Null

SkipsUndecodable ==
    (pc = "scan" /\ UndecodableAt(CoordPatternExec(eContent, coordLastIndex)))
        => (pc' = "scan" /\ UNCHANGED <<coordinates, coordinateGroups, notams>>)

\* C4: parseNotams returns a list for every bulletin; the notice loop, the
\* search for the area key word and the scan for coordinates move forward
\* at every turn; a token that does not decode is stepped over.
C4_Terminates ==
    /\ <>(pc = "done")
    /\ [][LoopsAdvance /\ SkipsUndecodable]_vars

\* a bulletin returned with records after the area search and the scan have
\* run and the scan has met a token that does not decode
C4_Witness ==
    /\ pc = "done"
    /\ Len(ret) > 0
    /\ areaSearchLastIndex > 0
    /\ coordLastIndex > 0
    /\ \E k \in 1..Len(call.notices) :
          "U" \in WordsOf(call.notices[k].e) /\ "AREA" \in WordsOf(call.notices[k].e)

\* the end of a chain of n more coordinates, each behind a dash, that starts
\* at the end e of a coordinate; 0 when the chain is shorter
RECURSIVE DashChainEnd(_, _, _)
DashChainEnd(s, e, n) ==
    IF n = 0 \/ e = 0 THEN e ELSE DashChainEnd(s, DashCoordEndAt(s, e), n - 1)

\* s holds n coordinate-shaped tokens connected by dashes
HasDashChain(s, n) ==
    \E p \in 1..Len(s) : DashChainEnd(s, PlainCoordEndAt(s, p, FALSE), n - 1) > 0

StatedPolygon(groupCoords, e) ==
    /\ Len(groupCoords) >= 3
    /\ \/ HasAreaKeywords(e)
       \/ HasClosingCoord(e)
       \/ HasDashChain(e, 4)
       \/ IsClosed(groupCoords)

\* C5: a record is a polygon exactly when its group has three coordinates
\* or more and the E) text has an area key word, or a closing coordinate in
\* parentheses, or four coordinate-shaped tokens connected by dashes, or the
\* first and the last coordinate of the group lie within 0.001 degrees.
C5_PolygonExactlyWhen ==
    \A k \in 1..Len(notams) :
        notams[k].id = notamId
            => (notams[k].isPolygon
                  <=> StatedPolygon(notams[k].coordinates,
                                    IF eContent = Null THEN << >> ELSE eContent))

IsQualifierRecord(record) ==
    \E c \in 1..Len(record.coordinates) : record.coordinates[c].type = "qualifierLine"

\* C6: a record made from the Q) line holds one coordinate, and it is the
\* only record of its notice.
C6_SingleFallbackCoordinate ==
    \A k \in 1..Len(notams) :
        IsQualifierRecord(notams[k])
            => /\ Len(notams[k].coordinates) = 1
               /\ \A j \in 1..Len(notams) : notams[j].id = notams[k].id => j = k

\* C7 as stated: two records of one id agree in id, content and ICAO codes
\* and never carry the same coordinates.
C7_DistinctGroups ==
    \A j, k \in 1..Len(notams) :
        (j < k /\ notams[j].id = notams[k].id)
            => /\ notams[j].fullContent = notams[k].fullContent
               /\ notams[j].icaoCodes = notams[k].icaoCodes
               /\ notams[j].coordinates # notams[k].coordinates

\* C7: two records of one id agree in id, content and ICAO codes; they carry
\* the same coordinates only when each holds a single position.
C7_DistinctAreas ==
    \A j, k \in 1..Len(notams) :
        (j < k /\ notams[j].id = notams[k].id)
            => /\ notams[j].fullContent = notams[k].fullContent
               /\ notams[j].icaoCodes = notams[k].icaoCodes
               /\ notams[j].coordinates = notams[k].coordinates
                    => Len(notams[j].coordinates) = 1

\* a ring written out twice and returned once, beside another record of
\* its notice
C7_Witness ==
    /\ pc = "done"
    /\ \E j, k \in 1..Len(ret) :
          /\ j < k
          /\ ret[j].id = ret[k].id
          /\ Len(ret[j].coordinates) >= 2
          /\ ret[j].icaoCodes # << >>

---------------------------------------------------------------------------
(* Calls of the decoders                                                   *)
(* A call is described by the fields of the token it passes; DmsText and   *)
(* QualifierText write the token out as the text the decoder receives.     *)

Pad2(n) == <<DigitChar((n \div 10) % 10), DigitChar(n % 10)>>
Pad3(n) == <<DigitChar((n \div 100) % 10)>> \o Pad2(n)

\* latitude tokens: DDMMSS (d6), DDMMSSs (d7), DDMMSS.ff (dec), DDMM (short);
\* f is the fraction of a second in hundredths
LatPlaces == {<<48, 40, 24>>, <<50, 49, 40>>, <<89, 59, 59>>, <<99, 99, 99>>}

LatTokens ==
    {[d |-> v[1], m |-> v[2], s |-> v[3], f |-> 0, form |-> "d6"] : v \in LatPlaces}
      \cup {[d |-> v[1], m |-> v[2], s |-> v[3], f |-> 50, form |-> "d7"] : v \in LatPlaces}
      \cup {[d |-> v[1], m |-> v[2], s |-> v[3], f |-> 17, form |-> "dec"] : v \in LatPlaces}
      \cup {[d |-> 42, m |-> 27, s |-> 0, f |-> 0, form |-> "short"]}

LatText(t) ==
    CASE t.form = "d6" -> Pad2(t.d) \o Pad2(t.m) \o Pad2(t.s)
      [] t.form = "d7" -> Pad2(t.d) \o Pad2(t.m) \o Pad2(t.s) \o <<DigitChar(t.f \div 10)>>
      [] t.form = "dec" -> Pad2(t.d) \o Pad2(t.m) \o Pad2(t.s) \o <<".">> \o Pad2(t.f)
      [] t.form = "short" -> Pad2(t.d) \o Pad2(t.m)

\* longitude tokens: DDDMMSSs (d8), DDDMMSS (d7), DDDMMSSs written without
\* its leading zero (d7l), DDDMMSS.ff (dec), DDDMM (short)
LonPlaces == {<<3, 4, 41>>, <<121, 15, 10>>, <<179, 59, 59>>, <<999, 99, 99>>}

LonTokens ==
    {[d |-> v[1], m |-> v[2], s |-> v[3], f |-> 50, form |-> "d8"] : v \in LonPlaces}
      \cup {[d |-> v[1], m |-> v[2], s |-> v[3], f |-> 0, form |-> "d7"] : v \in LonPlaces}
      \cup {[d |-> v[1], m |-> v[2], s |-> v[3], f |-> 18, form |-> "dec"] : v \in LonPlaces}
      \cup {[d |-> 14, m |-> 20, s |-> 21, f |-> 10, form |-> "d7l"],
            [d |-> 3, m |-> 4, s |-> 41, f |-> 50, form |-> "d7l"],
            [d |-> 6, m |-> 43, s |-> 0, f |-> 0, form |-> "short"]}

LonText(t) ==
    CASE t.form = "d8" -> Pad3(t.d) \o Pad2(t.m) \o Pad2(t.s) \o <<DigitChar(t.f \div 10)>>
      [] t.form = "d7" -> Pad3(t.d) \o Pad2(t.m) \o Pad2(t.s)
      [] t.form = "d7l" -> Pad2(t.d) \o Pad2(t.m) \o Pad2(t.s) \o <<DigitChar(t.f \div 10)>>
      [] t.form = "dec" -> Pad3(t.d) \o Pad2(t.m) \o Pad2(t.s) \o <<".">> \o Pad2(t.f)
      [] t.form = "short" -> Pad3(t.d) \o Pad2(t.m)

\* "" is an omitted hemisphere letter or an omitted space
Letter(c) == IF c = "" THEN << >> ELSE <<c>>

\* a latitude with a fraction is always closed by its letter or a space
DmsCalls ==
    {c \in [fn : {"parseDMSCoordinate"}, lat : LatTokens, latDir : {"N", "S", ""},
            sep : {" ", ""}, lon : LonTokens, lonDir : {"E", "W", ""}] :
        c.lat.form = "dec" => (c.latDir # "" \/ c.sep # "")}

DmsText(c) ==
    LatText(c.lat) \o Letter(c.latDir) \o Letter(c.sep) \o LonText(c.lon) \o Letter(c.lonDir)

\* qualifier-line tokens: DDMM N|S DDDMM E|W [RRR], and malformed variants
QualifierCalls ==
    [fn : {"parseQualifierLineCoordinate"},
     lat : {<<48, 40>>, <<16, 15>>, <<90, 0>>, <<99, 99>>},
     latDir : {"N", "S", "s"},
     lon : {<<3, 5>>, <<61, 16>>, <<180, 0>>, <<999, 99>>},
     lonDir : {"E", "W", "w"},
     radius : {<< >>, <<5>>, <<999>>},
     shape : {"exact", "lat3", "lon4", "nodir", "rad2", "rad4", "trail", "lead"}]

QualifierText(c) ==
    LET lat == Pad2(c.lat[1]) \o Pad2(c.lat[2])
        lon == Pad3(c.lon[1]) \o Pad2(c.lon[2])
        rad == IF c.radius = << >> THEN << >> ELSE Pad3(c.radius[1])
    IN  CASE c.shape = "exact" -> lat \o <<c.latDir>> \o lon \o <<c.lonDir>> \o rad
          [] c.shape = "lat3" -> Tail(lat) \o <<c.latDir>> \o lon \o <<c.lonDir>> \o rad
          [] c.shape = "lon4" -> lat \o <<c.latDir>> \o Tail(lon) \o <<c.lonDir>> \o rad
          [] c.shape = "nodir" -> lat \o lon \o <<c.lonDir>> \o rad
          [] c.shape = "rad2" -> lat \o <<c.latDir>> \o lon \o <<c.lonDir>> \o <<"0", "5">>
          [] c.shape = "rad4" -> lat \o <<c.latDir>> \o lon \o <<c.lonDir>> \o <<"0", "0", "0", "5">>
          [] c.shape = "trail" -> lat \o <<c.latDir>> \o lon \o <<c.lonDir>> \o rad \o <<"X">>
          [] c.shape = "lead" -> <<" ">> \o lat \o <<c.latDir>> \o lon \o <<c.lonDir>> \o rad

InitDecoders ==
    /\ call \in DmsCalls \cup QualifierCalls
    /\ ret = Pending
    /\ text = << >>
    /\ pc = "decoder"
    /\ Entered
    /\ NoMarkers

CallParseDMSCoordinate ==
    /\ call.fn = "parseDMSCoordinate"
    /\ ret = Pending
    /\ ret' = ParseDMSCoordinate(DmsText(call))
    /\ UNCHANGED <<call, mapVars, showAll, locationGroups, parseVars>>

CallParseQualifierLineCoordinate ==
    /\ call.fn = "parseQualifierLineCoordinate"
    /\ ret = Pending
    /\ ret' = ParseQualifierLineCoordinate(QualifierText(call))
    /\ UNCHANGED <<call, mapVars, showAll, locationGroups, parseVars>>

NextDecoders == CallParseDMSCoordinate \/ CallParseQualifierLineCoordinate

SpecDecoders == InitDecoders /\ [][NextDecoders]_vars

---------------------------------------------------------------------------
(* Properties of the decoders (checked under SpecDecoders)                 *)

Abs(x) == IF x < 0 THEN -x ELSE x

Returned == ret # Pending

\* the degrees, minutes and seconds written in the token are those of a
\* position on the globe
ValidFields(call_) ==
    IF call_.fn = "parseDMSCoordinate"
    THEN /\ call_.lat.d <= 89 /\ call_.lat.m <= 59 /\ call_.lat.s <= 59
         /\ call_.lon.d <= 179 /\ call_.lon.m <= 59 /\ call_.lon.s <= 59
    ELSE /\ call_.lat[1] <= 89 /\ call_.lat[2] <= 59
         /\ call_.lon[1] <= 179 /\ call_.lon[2] <= 59

InRange(r) == Abs(r.lat) <= 90 * Deg /\ Abs(r.lon) <= 180 * Deg

\* C8 as stated: every coordinate a decoder returns, for every token it
\* accepts, has latitude within [-90, 90] and longitude within [-180, 180].
C8_EveryTokenInRange == (Returned /\ ret # Null) => InRange(ret)

\* C8 amended: a coordinate a decoder returns for a token whose degrees,
\* minutes and seconds are at most 89 (179 for a longitude), 59 and 59.99
\* has latitude within [-90, 90] and longitude within [-180, 180].
C8_ValidTokenInRange == (Returned /\ ret # Null /\ ValidFields(call)) => InRange(ret)

C8_Witness ==
    /\ Returned /\ ret # Null
    /\ call.fn = "parseDMSCoordinate"
    /\ call.lat.d = 89 /\ call.lat.form = "d7"
    /\ call.lon.d = 179 /\ call.lon.form = "d8"
    /\ ret.lat > 89 * Deg /\ ret.lon > 179 * Deg

\* the value of an 8-digit longitude string read as DDDMMSSs
PositionalLon(s) ==
    ParseInt(SubSeq(s, 1, 3)) * Deg + ParseInt(SubSeq(s, 4, 5)) * MinUnit
      + ParseInt(SubSeq(s, 6, 7)) * SecUnit + 10 * DigitVal(s[8])

\* the normalization of a 7-digit longitude that C9 states
StatedNormalizeLon(latStr, lonStr) ==
    IF lonStr[1] = "0" THEN lonStr \o <<"0">>
    ELSE IF Len(latStr) = 6 \/ Includes(latStr, ".") THEN lonStr \o <<"0">>
    ELSE <<"0">> \o lonStr

Negated(v, dir, minus) == IF dir = minus THEN -v ELSE v

\* the latitude token is closed by its letter or by a space
Delimited == call.latDir # "" \/ call.sep # ""

\* C9: a 7-digit longitude without decimal point that starts with 0 gets a
\* trailing 0; otherwise it gets a trailing 0 when the latitude has 6 digits
\* or a decimal point, and a leading 0 when the latitude has 7 digits.
C9_SevenDigitLongitude ==
    (/\ Returned
     /\ call.fn = "parseDMSCoordinate"
     /\ call.lon.form \in {"d7", "d7l"}
     /\ call.lat.form # "short"
     /\ Delimited)
    => /\ ret # Null
       /\ ret.lon = Negated(PositionalLon(StatedNormalizeLon(LatText(call.lat),
                                                             LonText(call.lon))),
                            call.lonDir, "W")

\* the value the fields of a token stand for, in hundredths of a second
FieldsValue(t) == t.d * Deg + t.m * MinUnit + t.s * SecUnit + t.f

PlainTokens ==
    /\ Returned
    /\ call.fn = "parseDMSCoordinate"
    /\ call.lat.form \in {"d6", "d7"}
    /\ call.lon.form = "d8"

NoToken ==
    /\ Returned
    /\ call.fn = "parseDMSCoordinate"
    /\ (call.lat.form = "short" \/ call.lon.form = "short")

StatedValue ==
    ret = [lat |-> Negated(FieldsValue(call.lat), call.latDir, "S"),
           lon |-> Negated(FieldsValue(call.lon), call.lonDir, "W")]

\* C10 as stated: for every latitude token of 6 or 7 digits and every
\* longitude token of 8 digits the decoder returns DD + MM/60 + SS.s/3600 and
\* DDD + MM/60 + SS.s/3600, negated for S and W, positive for N, E or an
\* omitted letter; input that matches neither token form yields null.
C10_PositionalValue ==
    /\ PlainTokens => StatedValue
    /\ NoToken => ret = Null

\* C10 amended: the same, for a latitude token that has 7 digits or is
\* followed by its hemisphere letter or by white space.
C10_PositionalValueDelimited ==
    /\ (PlainTokens /\ (Delimited \/ call.lat.form = "d7")) => StatedValue
    /\ NoToken => ret = Null

C10_Witness ==
    /\ PlainTokens
    /\ call.lat.form = "d7" /\ call.latDir = "S" /\ call.sep = "" /\ call.lonDir = ""
    /\ ret # Null
    /\ ret.lat < 0 /\ ret.lon > 0

\* the value DD + MM/60 (DDD + MM/60) of the fields of a qualifier-line token
MinutesValue(t) == t[1] * Deg + t[2] * MinUnit

QualifierCall == Returned /\ call.fn = "parseQualifierLineCoordinate"

---------------------------------------------------------------------------
(* Properties of the scan of the E) section (checked under Spec)           *)

\* the bulletin is one notice whose E) section is the words e
SingleNotice(e) == Len(call.notices) = 1 /\ call.notices[1].e = e

\* C12: a coordinate written with no separator (6-digit latitude + N/S
\* immediately followed by 7-digit longitude + E/W) is accepted by the scan: a
\* notice whose E) text has PSN followed by such a token yields a record with
\* one coordinate of type psn decoded from that token, and does not fall back
\* to the qualifier line.
C12_SpacelessCoordinate ==
    (pc = "done" /\ SingleNotice(<<"PSN", "Aj">>)) =>
        /\ Len(ret) = 1
        /\ Len(ret[1].coordinates) = 1
        /\ ret[1].coordinates[1].type = "psn"
        /\ ret[1].coordinates[1].lat = 48 * Deg + 40 * MinUnit + 24 * SecUnit
        /\ ret[1].coordinates[1].lon = 3 * Deg + 4 * MinUnit + 41 * SecUnit

\* C13: in every record returned with isPolygon = true, whatever the vertex
\* sequence (polygons that cross the 180th meridian once or more than once
\* included), consecutive vertices differ in longitude by at most 180 degrees.
C13_LongitudeStepsWithin180 ==
    pc = "done" =>
        \A k \in 1..Len(ret) :
            ret[k].isPolygon =>
                \A c \in 2..Len(ret[k].coordinates) :
                    Abs(ret[k].coordinates[c].lon - ret[k].coordinates[c - 1].lon) <= 180 * Deg

\* the records of a list that carry an id, without the id
RecordsOf(list, idText) ==
    LET Carries(r) == r.id = idText
        own == SelectSeq(list, Carries)
    IN  [k \in 1..Len(own) |-> [fullContent |-> own[k].fullContent,
                                coordinates |-> own[k].coordinates,
                                icaoCodes |-> own[k].icaoCodes,
                                isPolygon |-> own[k].isPolygon]]

SameBody(n, m) == n.q = m.q /\ n.e = m.e /\ n.f = m.f

\* the notice loop enters the body of a notice
EntersNotice == pc = "notice" /\ pc' \in {"area", "scan", "collect"}

\* C14: the records of a notice depend only on its own id and body.  No scan
\* state (working sequence, seen set, closed set, closure flag, regex
\* positions) carries over from one notice to the next, and two notices with
\* the same body, wherever they stand in the bulletin and whatever was parsed
\* before them, get the same records but for the id.
C14_NoticesIndependent ==
    /\ [][EntersNotice => FreshLocals']_vars
    /\ [](pc = "done" =>
            \A j, k \in 1..Len(call.notices) :
                (/\ FirstIndex(IdText(call.notices[j].id)) = j
                 /\ FirstIndex(IdText(call.notices[k].id)) = k
                 /\ SameBody(call.notices[j], call.notices[k]))
                    => RecordsOf(ret, IdText(call.notices[j].id))
                         = RecordsOf(ret, IdText(call.notices[k].id)))

\* a notice that leaves a position in the seen set, parsed twice under two ids
C14_Witness ==
    /\ pc = "done"
    /\ Len(call.notices) = 2
    /\ call.notices[1].id # call.notices[2].id
    /\ SameBody(call.notices[1], call.notices[2])
    /\ "AREA" \in WordsOf(call.notices[1].e)
    /\ seenPositions # {}
    /\ Len(ret) = 4
    /\ ret[1].isPolygon /\ ret[3].isPolygon
    /\ ret[2].coordinates = ret[4].coordinates

\* the match the scan is about to handle, and the position it decodes to
ScanMatch == CoordPatternExec(eContent, coordLastIndex)
ScanCoords == ParseDMSCoordinate(ScanMatch.g1 \o <<" ">> \o ScanMatch.g2)

\* the scan is about to handle a coordinate that decodes and is not a
\* standalone position
ScansGroupCoordinate ==
    /\ pc = "scan"
    /\ ScanMatch.index >= 0
    /\ ScanCoords # Null
    /\ ~IsStandalonePsn(eContent, ScanMatch.index, ScanMatch.end)

\* the position repeats, at 6 decimals, a member of the working sequence
RepeatsMember ==
    \E k \in 1..Len(coordinates) : PosKey(coordinates[k]) = PosKey(ScanCoords)

\* the coordinate texts of a record
OriginalsOf(record) == [k \in 1..Len(record.coordinates) |-> record.coordinates[k].original]

WordTexts(names) == [k \in 1..Len(names) |-> Word(names[k])]

\* a ring closed by its first corner behind an area key word
ClosedRing(lead, c, link) ==
    lead \o Linked([k \in 1..(Len(c) + 1) |-> <<(c \o <<c[1]>>)[k]>>], link)

CoarseKeys(group) == {CoarsePosKey(group[k]) : k \in 1..Len(group)}

\* the scan closes the working sequence
ClosesGroup ==
    /\ pc = "scan"
    /\ coordinates # << >>
    /\ coordinates' = << >>
    /\ coordinateGroups' = Append(coordinateGroups, coordinates)

\* the notice of a record is written without the key word PSN, so that
\* all its groups are accumulated ones
WithoutPsn(idText) ==
    \A k \in 1..Len(call.notices) :
        FirstIndex(idText) = k => "PSN" \notin WordsOf(call.notices[k].e)

\* C19: once a group has been closed, a later non-standalone coordinate of
\* the notice whose position rounded to 3 decimals is that of a member of a
\* closed group is discarded.  The closed set holds exactly the rounded
\* positions of the groups closed, no member of the working sequence is in
\* it, and so of two accumulated groups of a notice the later one has no
\* member that matches a member of the earlier one at 3 decimals.
C19_ClosedPositionsDiscarded ==
    /\ [][(ScansGroupCoordinate /\ CoarsePosKey(ScanCoords) \in closedGroupPositions)
            => UNCHANGED <<coordinateGroups, coordinates, seenPositions,
                           closedGroupPositions, groupClosed>>]_vars
    /\ [][ClosesGroup
            => closedGroupPositions' = closedGroupPositions \cup CoarseKeys(coordinates)]_vars
    /\ [][(pc = "scan" /\ ~ClosesGroup) => closedGroupPositions' = closedGroupPositions]_vars
    /\ [](CoarseKeys(coordinates) \cap closedGroupPositions = {})
    /\ [](pc = "done" =>
            \A a, b \in 1..Len(ret) :
                (a < b /\ ret[a].id = ret[b].id /\ WithoutPsn(ret[a].id))
                    => CoarseKeys(ret[a].coordinates) \cap CoarseKeys(ret[b].coordinates) = {})

\* a ring closed by its first corner and written again from a point next to
\* that corner: the second writing is discarded
C19_Witness ==
    /\ pc = "done"
    /\ SingleNotice(<<"AREA", "A", ",", "B", ",", "A", ",", "An", ",", "B">>)
    /\ Len(ret) = 1
    /\ OriginalsOf(ret[1]) = WordTexts(<<"A", "B">>)
    /\ closedGroupPositions = CoarseKeys(ret[1].coordinates)

\* the scan is about to handle a coordinate that decodes and is a standalone
\* position
ScansStandalone ==
    /\ pc = "scan"
    /\ ScanMatch.index >= 0
    /\ ScanCoords # Null
    /\ IsStandalonePsn(eContent, ScanMatch.index, ScanMatch.end)

\* C20: a standalone position (PSN within the 10 preceding characters, no
\* dash and coordinate behind it) is emitted at once as a group of its own
\* and leaves the working sequence, the seen set, the closed set and the
\* closure flag unchanged; it is emitted also before the extraction-start
\* index and when it repeats a position already seen or already closed.
C20_StandaloneEmitted ==
    /\ [][ScansStandalone
            => /\ coordinateGroups'
                    = Append(coordinateGroups,
                             <<[original |-> ScanMatch.g1 \o <<" ">> \o ScanMatch.g2,
                                lat |-> ScanCoords.lat, lon |-> ScanCoords.lon,
                                type |-> "psn"]>>)
               /\ UNCHANGED <<coordinates, seenPositions, closedGroupPositions,
                              groupClosed>>]_vars
    /\ [](pc = "done" =>
            /\ SingleNotice(<<"PSN", "D", ",", "AREA", "A", ",", "B", ",", "C">>)
                  => /\ Len(ret) = 2
                     /\ OriginalsOf(ret[1]) = WordTexts(<<"D">>)
                     /\ OriginalsOf(ret[2]) = WordTexts(<<"A", "B", "C">>)
            /\ SingleNotice(<<"A", "-", "PSN", "A">>)
                  => /\ Len(ret) = 2
                     /\ OriginalsOf(ret[1]) = WordTexts(<<"A">>)
                     /\ OriginalsOf(ret[2]) = WordTexts(<<"A">>)
            /\ SingleNotice(<<"AREA", "A", ",", "A", ",", "PSN", "A">>)
                  => /\ Len(ret) = 2
                     /\ OriginalsOf(ret[1]) = WordTexts(<<"A">>)
                     /\ OriginalsOf(ret[2]) = WordTexts(<<"A">>))

\* a position behind PSN emitted although it lies before the area it
\* precedes
C20_Witness ==
    /\ pc = "done"
    /\ SingleNotice(<<"PSN", "D", ",", "AREA", "A", ",", "B", ",", "C">>)
    /\ extractionStartIndex > 0
    /\ Len(ret) = 2
    /\ Len(ret[1].coordinates) = 1
    /\ ~ret[1].isPolygon /\ ret[2].isPolygon

\* where word k of the section e begins in eContent, which opens with the
\* blank behind the marker
WordIndex(e, k) == 1 + Len(EText(SubSeq(e, 1, k - 1)))

\* the words shaped as a coordinate of the scan
CoordShaped == Decodable \cup {"U"}

\* the area key words of e with a coordinate beginning at most 40
\* characters behind them
FollowedKeywords(e) ==
    {k \in 1..Len(e) :
        /\ e[k] = "AREA"
        /\ \E j \in (k + 1)..Len(e) :
              e[j] \in CoordShaped /\ WordIndex(e, j) - (WordIndex(e, k) + 4) <= 40}

StatedStartIndex(e) ==
    IF FollowedKeywords(e) = {} THEN 0 ELSE WordIndex(e, Least(FollowedKeywords(e)))

\* word j stands right behind PSN and no dash links it to a next coordinate
StandaloneWord(e, j) ==
    /\ j > 1 /\ e[j - 1] = "PSN"
    /\ ~(j + 2 <= Len(e) /\ e[j + 1] = "-" /\ e[j + 2] \in CoordShaped)

\* the coordinate texts of all the records of a list
AllOriginals(list) ==
    UNION {{list[k].coordinates[c].original : c \in 1..Len(list[k].coordinates)} :
              k \in 1..Len(list)}

\* the coordinate texts that the records took from the E) section
SectionOriginals(list) ==
    UNION {{list[k].coordinates[c].original :
               c \in {d \in 1..Len(list[k].coordinates) : list[k].coordinates[d].type = "psn"}} :
              k \in 1..Len(list)}

\* C21: when an area key word fires, the extraction start index is the
\* position of the first area key word that is followed within 40 characters
\* by a coordinate-shaped token, and every coordinate of the records is
\* written at or behind that index or is a standalone position; when no key
\* word is so followed the index is 0 and nothing is excluded: the first
\* coordinate of the section is in a record.
C21_ExtractionStart ==
    (pc = "done" /\ Len(call.notices) = 1) =>
        LET e == call.notices[1].e
            first == Least({j \in 1..Len(e) : e[j] \in Decodable})
        IN  ((\E k \in 1..Len(e) : e[k] = "AREA") /\ HasAreaKeywords(eContent)) =>
                /\ extractionStartIndex = StatedStartIndex(e)
                /\ \A o \in SectionOriginals(ret) :
                      \E j \in 1..Len(e) :
                          /\ e[j] \in Decodable
                          /\ Trim(Word(e[j])) = o
                          /\ (WordIndex(e, j) >= StatedStartIndex(e) \/ StandaloneWord(e, j))
                /\ (StatedStartIndex(e) = 0 /\ (\E j \in 1..Len(e) : e[j] \in Decodable))
                      => Trim(Word(e[first])) \in AllOriginals(ret)

\* the second key word is the first with a coordinate within reach, and the
\* coordinate written before it is left out
C21_Witness ==
    /\ pc = "done"
    /\ SingleNotice(<<"D", ",", "AREA", "FAR", "AREA", "A", ",", "B", ",", "C">>)
    /\ extractionStartIndex = 61
    /\ Len(ret) = 1
    /\ OriginalsOf(ret[1]) = WordTexts(<<"A", "B", "C">>)

\* no key word has a coordinate within reach, and the coordinate written
\* before them is kept
C21_WitnessNone ==
    /\ pc = "done"
    /\ SingleNotice(<<"D", ",", "AREA", "FAR", "OBST", "A", ",", "B", ",", "C">>)
    /\ extractionStartIndex = 0
    /\ Len(ret) = 1
    /\ Len(ret[1].coordinates) = 4

\* the key words the extraction is stated to be triggered by, as far as the
\* sections are written with them
StatedTriggers == Keywords \cup {"OBST", "CENTER"}

\* some record of the list has a coordinate taken from the E) section
HasPsnCoordinate(list) ==
    \E k \in 1..Len(list) : \E c \in 1..Len(list[k].coordinates) :
        list[k].coordinates[c].type = "psn"

\* C22: coordinates are extracted from the E) section exactly when its text
\* contains one of the trigger key words PSN, a centre key word (CENTRE,
\* CENTRED, CENTER, CENTERED), OBST or an area key word: a section with such
\* a word and a coordinate that decodes yields a coordinate of type psn, and
\* a section with none yields no coordinate of type psn, so that a notice
\* without a Q) line yields no record.
C22_TriggerKeywords ==
    (pc = "done" /\ Len(call.notices) = 1) =>
        LET n == call.notices[1]
            words == WordsOf(Visible(n.e))
        IN  /\ (words \cap StatedTriggers # {} /\ words \cap Decodable # {})
                  => HasPsnCoordinate(ret)
            /\ words \cap StatedTriggers = {} => ~HasPsnCoordinate(ret)
            /\ (words \cap StatedTriggers = {} /\ n.q = 0) => ret = << >>

\* the area key words the sections are written with
AreaWords == {"AREA", "LIMITS"}

\* C23: the phrase RESTRICTED IN AREA disqualifies only the key word that is
\* part of it: a section with a further area key word (LATERAL LIMITS, AREA)
\* and coordinates, whether or not it also holds the phrase, has its
\* coordinates extracted, and its groups of 3 or more coordinates are
\* polygons.
C23_ExclusionIsLocal ==
    (pc = "done" /\ Len(call.notices) = 1) =>
        LET words == WordsOf(Visible(call.notices[1].e))
        IN  (words \cap AreaWords # {} /\ words \cap Decodable # {}) =>
                /\ HasPsnCoordinate(ret)
                /\ \A k \in 1..Len(ret) :
                      Len(ret[k].coordinates) >= 3 => ret[k].isPolygon

\* C24: the E) section runs from its first marker to the marker of a section
\* letter not yet seen or to the end of the body: a line of the E) text that
\* starts with A) in a notice that has an A) line does not end it, and an
\* "E)" not preceded by white space (the end of "(SEE)") is not its marker.
\* Hence every standalone position written in the E) section up to the empty
\* line, before or behind such a line, is in a record, and so is every
\* coordinate of a list behind an area key word.
C24_SectionExtent ==
    (pc = "done" /\ Len(call.notices) = 1) =>
        LET e == Visible(call.notices[1].e)
        IN  /\ \A j \in 1..Len(e) :
                  (e[j] \in Decodable /\ StandaloneWord(e, j))
                      => Trim(Word(e[j])) \in AllOriginals(ret)
            /\ e \in {<<"AREA", "A", ",", "SUBA", "B", ",", "C">>,
                      <<"AREA", "A", ",", "B", ",", "C">>}
                  => /\ Len(ret) = 1
                     /\ OriginalsOf(ret[1]) = WordTexts(<<"A", "B", "C">>)

\* the 6-decimal keys of a sequence of coordinates
PosKeys(group) == {PosKey(group[k]) : k \in 1..Len(group)}

\* the scan has come to the test of the seen set (line 336) with a position
\* that is in it
DetectsDuplicate ==
    /\ ScansGroupCoordinate
    /\ ScanMatch.index >= extractionStartIndex
    /\ ~InClosedGroup(ScanCoords, closedGroupPositions)
    /\ PosKey(ScanCoords) \in seenPositions

\* C26: at every step of the scan the seen set is exactly the set of the
\* 6-decimal keys of the working sequence, and the closure flag is set only
\* while the working sequence is empty.  Hence the members of every
\* accumulated group are pairwise distinct at 6 decimals, and whenever a
\* duplicate is detected the working sequence is not empty and the flag is
\* clear, so that every detected duplicate closes a group.
C26_ScanState ==
    /\ [](/\ seenPositions = PosKeys(coordinates)
          /\ groupClosed => coordinates = << >>
          /\ Cardinality(PosKeys(coordinates)) = Len(coordinates)
          /\ \A g \in 1..Len(coordinateGroups) :
                coordinateGroups[g][1].type = "psn"
                    => Cardinality(PosKeys(coordinateGroups[g])) = Len(coordinateGroups[g]))
    /\ [][DetectsDuplicate
            => /\ ~groupClosed /\ Len(coordinates) > 0
               /\ coordinateGroups' = Append(coordinateGroups, coordinates)
               /\ groupClosed' /\ coordinates' = << >>]_vars

\* a duplicate detected and, one step later, the flag set over an empty
\* working sequence and an empty seen set
C26_Witness ==
    /\ pc = "scan"
    /\ groupClosed /\ coordinates = << >> /\ seenPositions = {}
    /\ Len(coordinateGroups) = 1
    /\ Len(coordinateGroups[1]) = 3
    /\ closedGroupPositions # {}

\* the types of the coordinates of a record
TypesOf(record) == {record.coordinates[c].type : c \in 1..Len(record.coordinates)}

\* the statistics of parseAndDisplay (lines 896-898), as the records counted
AreaNotams(list) == {k \in 1..Len(list) : list[k].isPolygon}

PositionNotams(list) ==
    {k \in 1..Len(list) :
        ~list[k].isPolygon
          /\ \E c \in 1..Len(list[k].coordinates) : list[k].coordinates[c].type = "psn"}

QualifierNotams(list) ==
    {k \in 1..Len(list) :
        ~list[k].isPolygon
          /\ \A c \in 1..Len(list[k].coordinates) : list[k].coordinates[c].type = "qualifierLine"}

\* C28: every record has coordinates of one type only, psn or
\* qualifierLine, and no notice id has records of both types; therefore the
\* three classes of the statistics (areas, positions, no position)
\* partition the list of records: all = areas + positions + no position.
C28_StatisticsPartition ==
    /\ \A k \in 1..Len(notams) : TypesOf(notams[k]) \in {{"psn"}, {"qualifierLine"}}
    /\ \A k, l \in 1..Len(notams) :
          notams[k].id = notams[l].id => TypesOf(notams[k]) = TypesOf(notams[l])
    /\ AreaNotams(notams) \cap PositionNotams(notams) = {}
    /\ AreaNotams(notams) \cap QualifierNotams(notams) = {}
    /\ PositionNotams(notams) \cap QualifierNotams(notams) = {}
    /\ Cardinality(AreaNotams(notams)) + Cardinality(PositionNotams(notams))
          + Cardinality(QualifierNotams(notams)) = Len(notams)

\* a list returned with a record of each class
C28_Witness ==
    /\ pc = "done"
    /\ Len(ret) = 3
    /\ AreaNotams(ret) # {}
    /\ PositionNotams(ret) # {}
    /\ QualifierNotams(ret) # {}

\* C29: a record whose coordinates come from the fallback to the Q) line
\* (type qualifierLine) is never a polygon, whatever the E) section holds
\* and however many Q) lines the notice has.
C29_FallbackNeverPolygon ==
    \A k \in 1..Len(notams) : IsQualifierRecord(notams[k]) => ~notams[k].isPolygon

---------------------------------------------------------------------------
(* The date parser, modelled from the specification (section 4.3): the     *)
(* source of parseNotamDates is not part of src/, only its tests are       *)
(* (src/unnamed/part_001, lines 97-135).                                   *)

\* YYYY-MM-DD HH:MM at the head of s, as a timestamp; Null when s is not
\* written so
IcaoStamp(s) ==
    IF /\ Len(s) >= 16
       /\ AllDigits(SubSeq(s, 1, 4)) /\ s[5] = "-"
       /\ AllDigits(SubSeq(s, 6, 7)) /\ s[8] = "-"
       /\ AllDigits(SubSeq(s, 9, 10)) /\ s[11] = " "
       /\ AllDigits(SubSeq(s, 12, 13)) /\ s[14] = ":"
       /\ AllDigits(SubSeq(s, 15, 16))
    THEN [year |-> ParseInt(SubSeq(s, 1, 4)), month |-> ParseInt(SubSeq(s, 6, 7)),
          day |-> ParseInt(SubSeq(s, 9, 10)), hour |-> ParseInt(SubSeq(s, 12, 13)),
          minute |-> ParseInt(SubSeq(s, 15, 16))]
    ELSE Null

\* DD MM YYYY HH:MM at the head of s
RegionalStamp(s) ==
    IF /\ Len(s) >= 16
       /\ AllDigits(SubSeq(s, 1, 2)) /\ s[3] = " "
       /\ AllDigits(SubSeq(s, 4, 5)) /\ s[6] = " "
       /\ AllDigits(SubSeq(s, 7, 10)) /\ s[11] = " "
       /\ AllDigits(SubSeq(s, 12, 13)) /\ s[14] = ":"
       /\ AllDigits(SubSeq(s, 15, 16))
    THEN [year |-> ParseInt(SubSeq(s, 7, 10)), month |-> ParseInt(SubSeq(s, 4, 5)),
          day |-> ParseInt(SubSeq(s, 1, 2)), hour |-> ParseInt(SubSeq(s, 12, 13)),
          minute |-> ParseInt(SubSeq(s, 15, 16))]
    ELSE Null

\* the suffix EST behind the 16 characters of a timestamp
HasEst(s) == LitAt(Trim(SubstringFrom(s, 16)), 1, <<"E", "S", "T">>)

\* IsPerm that never finds PERM
NeverPerm(s) == FALSE

\* the field holds PERM
IsPerm(s) == LitAt(Trim(s), 1, <<"P", "E", "R", "M">>)

NoEnd == [end |-> Null, permanent |-> FALSE, estimated |-> FALSE]

\* the end of validity written in a field, stamp being the timestamp read
\* at its head
EndField(s, stamp) ==
    IF IsPerm(s) THEN [end |-> Null, permanent |-> TRUE, estimated |-> FALSE]
    ELSE IF stamp # Null
    THEN [end |-> stamp, permanent |-> FALSE, estimated |-> HasEst(Trim(s))]
    ELSE NoEnd

\* the rest of the line behind the first occurrence of a label in the body
FieldAfter(raw, label) ==
    LET starts == {k \in 1..Len(raw) : LitAt(raw, k, label)}
        from == Least(starts) + Len(label)
        ends == {k \in from..Len(raw) : raw[k] = "\n"}
    IN  IF starts = {} THEN [found |-> FALSE, rest |-> << >>]
        ELSE [found |-> TRUE,
              rest |-> SubSeq(raw, from, IF ends = {} THEN Len(raw) ELSE Least(ends) - 1)]

\* parseNotamDates(sections, content): B) and C) when the notice has them,
\* the DU: and AU: fields of the body otherwise
parseNotamDates(sections, raw) ==
    IF sections.hasB \/ sections.hasC
    THEN LET till == IF sections.hasC
                     THEN EndField(sections.C, IcaoStamp(Trim(sections.C)))
                     ELSE NoEnd
         IN  [start |-> IF sections.hasB THEN IcaoStamp(Trim(sections.B)) ELSE Null,
              end |-> till.end, permanent |-> till.permanent, estimated |-> till.estimated]
    ELSE LET du == FieldAfter(raw, <<"D", "U", ":">>)
             au == FieldAfter(raw, <<"A", "U", ":">>)
             till == IF au.found THEN EndField(au.rest, RegionalStamp(Trim(au.rest)))
                     ELSE NoEnd
         IN  [start |-> IF du.found THEN RegionalStamp(Trim(du.rest)) ELSE Null,
              end |-> till.end, permanent |-> till.permanent, estimated |-> till.estimated]

\* the timestamps written in the notices
Stamps ==
    {[year |-> 2026, month |-> 3, day |-> 11, hour |-> 23, minute |-> 59],
     [year |-> 2025, month |-> 1, day |-> 20, hour |-> 7, minute |-> 32],
     [year |-> 2026, month |-> 6, day |-> 30, hour |-> 0, minute |-> 0]}

\* calls of parseNotamDates: the scheme of the notice, its start, and its
\* end: none, PERM, UFN (neither PERM nor a timestamp) or a timestamp with
\* or without EST
DateCalls ==
    [fn : {"parseNotamDates"},
     scheme : {"icao", "regional"},
     start : Stamps \cup {Null},
     till : [kind : {"none", "PERM", "UFN"}, stamp : {Null}, est : {FALSE}]
              \cup [kind : {"stamp"}, stamp : Stamps, est : BOOLEAN]]

Pad4(n) == Pad2(n \div 100) \o Pad2(n % 100)

StampText(scheme, t) ==
    IF scheme = "icao"
    THEN Pad4(t.year) \o <<"-">> \o Pad2(t.month) \o <<"-">> \o Pad2(t.day)
           \o <<" ">> \o Pad2(t.hour) \o <<":">> \o Pad2(t.minute)
    ELSE Pad2(t.day) \o <<" ">> \o Pad2(t.month) \o <<" ">> \o Pad4(t.year)
           \o <<" ">> \o Pad2(t.hour) \o <<":">> \o Pad2(t.minute)

TillText(scheme, t) ==
    CASE t.kind = "PERM" -> <<"P", "E", "R", "M">>
      [] t.kind = "UFN" -> <<"U", "F", "N">>
      [] t.kind = "stamp" ->
            StampText(scheme, t.stamp) \o (IF t.est THEN <<" ", "E", "S", "T">> ELSE << >>)
      [] OTHER -> << >>

\* the sections of the notice of a call
DateSections(c) ==
    IF c.scheme = "icao"
    THEN [hasB |-> c.start # Null,
          B |-> IF c.start # Null THEN <<" ">> \o StampText("icao", c.start) \o <<" ">> ELSE << >>,
          hasC |-> c.till.kind # "none",
          C |-> <<" ">> \o TillText("icao", c.till) \o <<"\n">>]
    ELSE [hasB |-> FALSE, B |-> << >>, hasC |-> FALSE, C |-> << >>]

\* the body of the notice of a call
DateBody(c) ==
    (IF c.scheme = "icao"
     THEN (IF c.start # Null THEN <<"B", ")", " ">> \o StampText("icao", c.start) \o <<" ">> ELSE << >>)
            \o (IF c.till.kind # "none" THEN <<"C", ")", " ">> \o TillText("icao", c.till) ELSE << >>)
     ELSE (IF c.start # Null
           THEN <<"D", "U", ":", " ">> \o StampText("regional", c.start) \o <<" ">> ELSE << >>)
            \o (IF c.till.kind # "none"
                THEN <<"A", "U", ":", " ">> \o TillText("regional", c.till) ELSE << >>))
      \o <<"\n", "E", ")", " ", "T", "E", "S", "T">>

InitDates ==
    /\ call \in DateCalls
    /\ ret = Pending
    /\ text = DateBody(call)
    /\ pc = "dates"
    /\ Entered
    /\ NoMarkers

CallParseNotamDates ==
    /\ call.fn = "parseNotamDates"
    /\ ret = Pending
    /\ ret' = parseNotamDates(DateSections(call), text)
    /\ UNCHANGED <<call, mapVars, showAll, locationGroups, parseVars>>

SpecDates == InitDates /\ [][CallParseNotamDates]_vars

DatesCall == Returned /\ call.fn = "parseNotamDates"

\* C15: when the end field (C) section, or the AU: field of the regional
\* scheme) is PERM the result has permanent = true and end = null; when it is
\* a timestamp the result has end set to it and permanent = false, with
\* estimated = true exactly when the timestamp carries the EST suffix.  Hence
\* no result has permanent = true together with an end.
C15_EndOfValidity ==
    DatesCall =>
        /\ call.till.kind = "PERM" => (ret.permanent /\ ret.end = Null)
        /\ call.till.kind = "stamp" =>
              /\ ret.end = call.till.stamp
              /\ ~ret.permanent
              /\ ret.estimated = call.till.est
        /\ ~(ret.permanent /\ ret.end # Null)

C15_Witness ==
    /\ DatesCall
    /\ call.scheme = "regional"
    /\ call.till.kind = "PERM"
    /\ call.start # Null
    /\ ret.start = call.start
    /\ ret.permanent /\ ret.end = Null

---------------------------------------------------------------------------
(* parseAndDisplay: the marker groups                                      *)

\* toFixed(4) of an angle: the sign and the ten-thousandths of a degree
ToFixed4(v) ==
    LET a == IF v < 0 THEN -v ELSE v
    IN  <<v < 0, (a + 18) \div 36>>

\* locationKey(lat, lon)
locationKey(lat, lon) == <<ToFixed4(lat), ToFixed4(lon)>>

\* the place of a letter in the alphabet
Ord(c) == CHOOSE k \in DOMAIN UpperLetters : UpperLetters[k] = c

\* a code sorts before another (codes are four letters)
RECURSIVE CodeBefore(_, _)
CodeBefore(a, b) ==
    IF a = << >> \/ b = << >> THEN a = << >> /\ b # << >>
    ELSE IF Head(a) # Head(b) THEN Ord(Head(a)) < Ord(Head(b))
    ELSE CodeBefore(Tail(a), Tail(b))

\* icaoCodes.slice().sort()
RECURSIVE SortCodes(_)
SortCodes(codes) ==
    IF Len(codes) <= 1 THEN codes
    ELSE LET Before(c) == CodeBefore(c, Head(codes))
             NotBefore(c) == ~CodeBefore(c, Head(codes))
         IN  SortCodes(SelectSeq(Tail(codes), Before)) \o <<Head(codes)>>
               \o SortCodes(SelectSeq(Tail(codes), NotBefore))

\* the key of a marker group, lines 526-527
GroupKey(notam, coord) == <<locationKey(coord.lat, coord.lon), SortCodes(notam.icaoCodes)>>

\* FilteredCoords that shows every coordinate
EveryCoord(coords, all) == coords

\* lines 520-522
FilteredCoords(coords, all) ==
    LET IsPsn(c) == c.type = "psn"
    IN  IF all THEN coords ELSE SelectSeq(coords, IsPsn)

\* the entry pushed at lines 540-545; a psn coordinate has no radius
GroupEntry(notam, coord) ==
    IF coord.type = "qualifierLine"
    THEN [id |-> notam.id, fullContent |-> notam.fullContent, type |-> coord.type,
          radius |-> coord.radius]
    ELSE [id |-> notam.id, fullContent |-> notam.fullContent, type |-> coord.type]

\* lines 528-538
NewGroup(notam, coord) ==
    [key |-> GroupKey(notam, coord), lat |-> coord.lat, lon |-> coord.lon,
     locationKey |-> locationKey(coord.lat, coord.lon), icaoCodes |-> notam.icaoCodes,
     notams |-> << >>, hasQualifierLine |-> FALSE, radius |-> << >>]

\* lines 539-549: the group with the entry of the coordinate
WithEntry(group, notam, coord) ==
    [group EXCEPT
        !.notams = Append(@, GroupEntry(notam, coord)),
        !.hasQualifierLine = @ \/ coord.type = "qualifierLine",
        !.radius = IF coord.type = "qualifierLine" /\ coord.radius \notin {<< >>, <<0>>}
                   THEN coord.radius ELSE @]

\* one turn of filteredCoords.forEach, lines 524-550
AddCoord(groups, notam, coord) ==
    LET at == {k \in 1..Len(groups) : groups[k].key = GroupKey(notam, coord)}
    IN  IF at = {}
        THEN Append(groups, WithEntry(NewGroup(notam, coord), notam, coord))
        ELSE [groups EXCEPT ![Least(at)] = WithEntry(@, notam, coord)]

RECURSIVE AddCoords(_, _, _)
AddCoords(groups, notam, coords) ==
    IF coords = << >> THEN groups
    ELSE AddCoords(AddCoord(groups, notam, Head(coords)), notam, Tail(coords))

\* groupNotamsByLocation(notams, showAll), from the groups gathered so far
RECURSIVE GroupFrom(_, _, _)
GroupFrom(groups, list, all) ==
    IF list = << >> THEN groups
    ELSE IF Head(list).isPolygon THEN GroupFrom(groups, Tail(list), all)
    ELSE GroupFrom(AddCoords(groups, Head(list), FilteredCoords(Head(list).coordinates, all)),
                   Tail(list), all)

groupNotamsByLocation(list, all) == GroupFrom(<< >>, list, all)

\* the circle layers: the variable radiusCircle and the circles on the map
MapState == [radiusCircle |-> radiusCircle, circles |-> circles]

\* L.circle([lat, lon], {radius: radiusNM * 1852, ...}), lines 486-494
Circle(lat, lon, radiusNM) == [lat |-> lat, lon |-> lon, radiusNM |-> radiusNM]

\* map.removeLayer(layer), of a circle layer
RECURSIVE removeLayer(_, _)
removeLayer(layers, layer) ==
    IF layers = << >> THEN << >>
    ELSE IF Head(layers) = layer THEN Tail(layers)
    ELSE <<Head(layers)>> \o removeLayer(Tail(layers), layer)

\* showRadiusCircle(lat, lon, radiusNM), lines 481-495
showRadiusCircle(m, lat, lon, radiusNM) ==
    LET kept == IF m.radiusCircle # Null THEN removeLayer(m.circles, m.radiusCircle)
                ELSE m.circles
    IN  [radiusCircle |-> Circle(lat, lon, radiusNM),
         circles |-> Append(kept, Circle(lat, lon, radiusNM))]

\* hideRadiusCircle that forgets the circle and leaves it on the map
forgetRadiusCircle(m) == [m EXCEPT !.radiusCircle = Null]

\* hideRadiusCircle(), lines 498-503
hideRadiusCircle(m) ==
    IF m.radiusCircle # Null
    THEN [radiusCircle |-> Null, circles |-> removeLayer(m.circles, m.radiusCircle)]
    ELSE m

\* the handler of popupopen of the marker of a group, lines 651-654
OnPopupOpen(m, group) ==
    IF group.hasQualifierLine /\ group.radius # << >>
    THEN showRadiusCircle(m, group.lat, group.lon, group.radius)
    ELSE m

\* the handler of popupclose of a marker, lines 677-679
OnPopupClose(m) == hideRadiusCircle(m)

\* the sources of a popup: the marker of a group, or the polygon of a record
MarkerPopup(g) == [marker |-> g]
PolygonPopup(r) == [polygon |-> r]
IsMarkerPopup(p) == p # Null /\ "marker" \in DOMAIN p

\* the map closes the popup that is open, as it does before it opens
\* another one and when the layer of the popup is removed: popupclose is
\* fired on the layer, and a polygon's handler (lines 788-790) only sets a style
PopupClosed(m, p) == IF IsMarkerPopup(p) THEN OnPopupClose(m) ELSE m

\* the circle part of clearMarkers(), lines 440-449: the markers are removed
\* (the popup of a marker is closed with it), then the circle
clearMarkers(m, p) ==
    LET closed == PopupClosed(m, p)
    IN  IF closed.radiusCircle # Null
        THEN [radiusCircle |-> Null,
              circles |-> removeLayer(closed.circles, closed.radiusCircle)]
        ELSE closed

\* parseAndDisplay, after parseNotams has returned (a second click parses the
\* same text to the same records): the box is read, the layers are cleared
\* and the groups are made unless there is no record (lines 798-853)
parseAndDisplay ==
    /\ pc \in {"done", "displayed"}
    /\ pc' = "displayed"
    /\ \E checked \in BOOLEAN :
          /\ showAll' = checked
          /\ locationGroups' = IF Len(ret) = 0 THEN << >>
                               ELSE groupNotamsByLocation(ret, checked)
    /\ radiusCircle' = clearMarkers(MapState, popup).radiusCircle
    /\ circles' = clearMarkers(MapState, popup).circles
    /\ popup' = Null
    /\ UNCHANGED <<call, ret, text, parts, i, seenIds, notams, notamId, content, eContent,
                   scanVars>>

NextDisplay == Next \/ parseAndDisplay

SpecDisplay == Init /\ [][NextDisplay]_vars

\* the entries of the marker groups
RECURSIVE EntriesOf(_)
EntriesOf(groups) ==
    IF groups = << >> THEN << >> ELSE Head(groups).notams \o EntriesOf(Tail(groups))

\* the coordinates of the records that are not polygons
RECURSIVE MarkerCoords(_)
MarkerCoords(list) ==
    IF list = << >> THEN << >>
    ELSE (IF Head(list).isPolygon THEN << >> ELSE Head(list).coordinates)
           \o MarkerCoords(Tail(list))

\* the notice with this id produced a coordinate from its E) section
HasSectionCoord(list, idText) ==
    \E k \in 1..Len(list) :
        /\ list[k].id = idText
        /\ \E c \in 1..Len(list[k].coordinates) : list[k].coordinates[c].type = "psn"

\* C16: a marker is made for a qualifier-line coordinate only when the
\* notice produced no coordinate from its E) section and "Show all NOTAMs" is
\* enabled; with the option disabled no marker group holds a qualifierLine
\* entry; and polygon records never produce markers (the markers are as many
\* as the coordinates shown of the records that are not polygons).
C16_QualifierMarkers ==
    pc = "displayed" =>
        /\ \A k \in 1..Len(EntriesOf(locationGroups)) :
              EntriesOf(locationGroups)[k].type = "qualifierLine"
                 => /\ showAll
                    /\ ~HasSectionCoord(ret, EntriesOf(locationGroups)[k].id)
        /\ ~showAll => \A g \in 1..Len(locationGroups) : ~locationGroups[g].hasQualifierLine
        /\ Len(EntriesOf(locationGroups))
              = Cardinality({c \in 1..Len(MarkerCoords(ret)) :
                               showAll \/ MarkerCoords(ret)[c].type = "psn"})
        /\ \A k \in 1..Len(EntriesOf(locationGroups)) :
              \E r \in 1..Len(ret) :
                  ~ret[r].isPolygon /\ ret[r].id = EntriesOf(locationGroups)[k].id

\* a bulletin with a polygon, a position of the E) section and a notice
\* that fell back to its Q) line, displayed with the option enabled
C16_Witness ==
    /\ pc = "displayed"
    /\ showAll
    /\ \E g \in 1..Len(locationGroups) :
          locationGroups[g].hasQualifierLine /\ locationGroups[g].radius = <<5>>
    /\ \E g \in 1..Len(locationGroups) : ~locationGroups[g].hasQualifierLine
    /\ \E r \in 1..Len(ret) : ret[r].isPolygon

---------------------------------------------------------------------------
(* The popups of the markers and the radius circle                         *)

\* buildLocationToGroupsMap, lines 506-516: the groups at the location of a
\* group, in the order of the Map
GroupsAtLocation(groups, g) ==
    LET Same(k) == groups[k].locationKey = groups[g].locationKey
    IN  SelectSeq([k \in 1..Len(groups) |-> k], Same)

\* groupIndex, line 857 (counted from 0)
GroupIndex(groups, g) ==
    (CHOOSE j \in 1..Len(GroupsAtLocation(groups, g)) : GroupsAtLocation(groups, g)[j] = g) - 1

\* hasMultipleAtLocation, line 859
HasMultipleAtLocation(groups, g) == Len(GroupsAtLocation(groups, g)) > 1

\* prevMarker, lines 662-663
PrevMarker(groups, g) ==
    LET total == Len(GroupsAtLocation(groups, g))
    IN  GroupsAtLocation(groups, g)[((GroupIndex(groups, g) - 1 + total) % total) + 1]

\* nextMarker, lines 669-670
NextMarker(groups, g) ==
    LET total == Len(GroupsAtLocation(groups, g))
    IN  GroupsAtLocation(groups, g)[((GroupIndex(groups, g) + 1) % total) + 1]

\* marker.openPopup(): a marker whose popup is closed is clicked, or the
\* header of its list item is (line 883).  The map closes the popup that is
\* open, then opens the marker's and fires popupopen
openPopup ==
    /\ pc = "displayed"
    /\ \E g \in 1..Len(locationGroups) :
          /\ popup # MarkerPopup(g)
          /\ LET m == OnPopupOpen(PopupClosed(MapState, popup), locationGroups[g])
             IN  /\ radiusCircle' = m.radiusCircle
                 /\ circles' = m.circles
          /\ popup' = MarkerPopup(g)
    /\ UNCHANGED <<call, ret, showAll, locationGroups, parseVars>>

\* the popup that is open is closed: by its button, by a click on the map
\* or on its marker
closePopup ==
    /\ pc = "displayed"
    /\ popup # Null
    /\ LET m == PopupClosed(MapState, popup)
       IN  /\ radiusCircle' = m.radiusCircle
           /\ circles' = m.circles
    /\ popup' = Null
    /\ UNCHANGED <<call, ret, showAll, locationGroups, parseVars>>

\* prevBtn.onclick and nextBtn.onclick, lines 661-673: marker.closePopup(),
\* then the other marker's openPopup()
navClick ==
    /\ pc = "displayed"
    /\ \E g \in 1..Len(locationGroups) :
          /\ popup = MarkerPopup(g)
          /\ HasMultipleAtLocation(locationGroups, g)
          /\ \E other \in {PrevMarker(locationGroups, g), NextMarker(locationGroups, g)} :
                /\ LET m == OnPopupOpen(OnPopupClose(MapState), locationGroups[other])
                   IN  /\ radiusCircle' = m.radiusCircle
                       /\ circles' = m.circles
                /\ popup' = MarkerPopup(other)
    /\ UNCHANGED <<call, ret, showAll, locationGroups, parseVars>>

\* polygon.openPopup(), by a click on the polygon, on its list item (line
\* 839) or on the buttons of another polygon's popup (lines 772-784)
openPolygonPopup ==
    /\ pc = "displayed"
    /\ \E r \in 1..Len(ret) :
          /\ ret[r].isPolygon
          /\ popup # PolygonPopup(r)
          /\ LET m == PopupClosed(MapState, popup)
             IN  /\ radiusCircle' = m.radiusCircle
                 /\ circles' = m.circles
          /\ popup' = PolygonPopup(r)
    /\ UNCHANGED <<call, ret, showAll, locationGroups, parseVars>>

\* clearAll(), lines 946-951
clearAll ==
    /\ pc = "displayed"
    /\ pc' = "cleared"
    /\ locationGroups' = << >>
    /\ radiusCircle' = clearMarkers(MapState, popup).radiusCircle
    /\ circles' = clearMarkers(MapState, popup).circles
    /\ popup' = Null
    /\ UNCHANGED <<call, ret, showAll, text, parts, i, seenIds, notams, notamId, content,
                   eContent, scanVars>>

NextMap ==
    NextDisplay \/ openPopup \/ closePopup \/ navClick \/ openPolygonPopup \/ clearAll

SpecMap == Init /\ [][NextMap]_vars

\* the popup of a marker whose group has a qualifier line and a radius
RadiusPopup(g) ==
    /\ popup = MarkerPopup(g)
    /\ locationGroups[g].hasQualifierLine
    /\ locationGroups[g].radius # << >>

\* C30: under any interleaving of the popup, navigation, parse and clear
\* events, at most one radius circle layer is on the map and radiusCircle
\* refers to it; while the popup of a group with a qualifier line and a
\* radius is open the circle shown is that group's; and when no popup is
\* open no circle is shown.
C30_RadiusCircleConsistent ==
    /\ Len(circles) <= 1
    /\ circles = IF radiusCircle = Null THEN << >> ELSE <<radiusCircle>>
    /\ \A g \in 1..Len(locationGroups) :
          RadiusPopup(g) =>
              circles = <<Circle(locationGroups[g].lat, locationGroups[g].lon,
                                 locationGroups[g].radius)>>
    /\ popup = Null => circles = << >>

\* the popup of a group with a radius is open at a location that another
\* marker shares, and the circle of the group is the one on the map
C30_Witness ==
    /\ pc = "displayed"
    /\ \E g \in 1..Len(locationGroups) :
          /\ RadiusPopup(g)
          /\ HasMultipleAtLocation(locationGroups, g)
          /\ GroupIndex(locationGroups, g) = 1
          /\ radiusCircle = Circle(locationGroups[g].lat, locationGroups[g].lon, <<5>>)
          /\ circles = <<radiusCircle>>

---------------------------------------------------------------------------
(* computePolygonArea                                                      *)
(* Coordinates are whole degrees here, and the area returned is counted in *)
(* halves of a square degree, which keeps the division by 2 exact.         *)

\* the sum of the loop of lines 455-459, from index k on (0-based)
RECURSIVE ShoelaceSum(_, _)
ShoelaceSum(coords, k) ==
    IF k >= Len(coords) THEN 0
    ELSE LET j == (k + 1) % Len(coords)
         IN  coords[k + 1].lat * coords[j + 1].lon - coords[j + 1].lat * coords[k + 1].lon
               + ShoelaceSum(coords, k + 1)

\* AbsArea that keeps the sign of the sum
SignedArea(area) == area

\* Math.abs(area)
AbsArea(area) == IF area < 0 THEN -area ELSE area

\* computePolygonArea(coordinates), in halves
computePolygonArea(coords) == AbsArea(ShoelaceSum(coords, 0))

MaxVertices == 4

\* the vertices of the polygons measured, and the factors they are enlarged by
GridPoints == [lat : {-1, 0, 1}, lon : {0, 1}]
Scales == {0, 2, -3}

AreaCalls ==
    [fn : {"computePolygonArea"},
     vertices : UNION {[1..n -> GridPoints] : n \in 0..MaxVertices},
     k : Scales]

\* the polygon with every coordinate multiplied by k
Scaled(coords, k) ==
    [v \in 1..Len(coords) |-> [lat |-> k * coords[v].lat, lon |-> k * coords[v].lon]]

InitArea ==
    /\ call \in AreaCalls
    /\ ret = << >>
    /\ text = << >>
    /\ pc = "area of P"
    /\ Entered
    /\ NoMarkers

\* the area of the polygon
CallComputePolygonArea ==
    /\ pc = "area of P"
    /\ ret' = <<computePolygonArea(call.vertices)>>
    /\ pc' = "area of kP"
    /\ UNCHANGED <<call, mapVars, showAll, locationGroups, text, parts, i, seenIds, notams, notamId,
                   content, eContent, scanVars>>

\* the area of the polygon enlarged
CallComputePolygonAreaScaled ==
    /\ pc = "area of kP"
    /\ ret' = Append(ret, computePolygonArea(Scaled(call.vertices, call.k)))
    /\ pc' = "areas known"
    /\ UNCHANGED <<call, mapVars, showAll, locationGroups, text, parts, i, seenIds, notams, notamId,
                   content, eContent, scanVars>>

NextArea == CallComputePolygonArea \/ CallComputePolygonAreaScaled

SpecArea == InitArea /\ [][NextArea]_vars

UnitSquare ==
    <<[lat |-> 0, lon |-> 0], [lat |-> 1, lon |-> 0], [lat |-> 1, lon |-> 1], [lat |-> 0, lon |-> 1]>>

---------------------------------------------------------------------------
(* The repair of self-intersecting polygons, modelled from the             *)
(* specification (section 4.8, self-intersection repair): its source is    *)
(* not part of src/, only its test is (src/unnamed/part_001, lines         *)
(* 567-574).  Coordinates are whole degrees and the centroid is kept as    *)
(* the sum of the vertices, n times the mean, which keeps every test exact. *)

\* twice the signed area of the triangle a, b, c
Orientation(a, b, c) ==
    (b.lon - a.lon) * (c.lat - a.lat) - (b.lat - a.lat) * (c.lon - a.lon)

\* the segments a-b and c-d cross properly: each separates the ends of the
\* other
SegmentsCross(a, b, c, d) ==
    /\ Orientation(a, b, c) * Orientation(a, b, d) < 0
    /\ Orientation(c, d, a) * Orientation(c, d, b) < 0

\* edge k (0-based) of the polygon runs from vertex k to the next, the last
\* edge back to the first vertex; some two edges that are not neighbours
\* cross
HasSelfIntersection(coords) ==
    LET n == Len(coords)
    IN  \E a \in 0..(n - 1) : \E b \in (a + 2)..(n - 1) :
            /\ ~(a = 0 /\ b = n - 1)
            /\ SegmentsCross(coords[a + 1], coords[((a + 1) % n) + 1],
                             coords[b + 1], coords[((b + 1) % n) + 1])

RECURSIVE SumLat(_)
SumLat(coords) == IF coords = << >> THEN 0 ELSE Head(coords).lat + SumLat(Tail(coords))

RECURSIVE SumLon(_)
SumLon(coords) == IF coords = << >> THEN 0 ELSE Head(coords).lon + SumLon(Tail(coords))

\* the vertex as seen from the centroid, enlarged n times
FromCentroid(coords, v) ==
    [y |-> Len(coords) * v.lat - SumLat(coords), x |-> Len(coords) * v.lon - SumLon(coords)]

\* where atan2(y, x) lies: below 0, 0, between 0 and pi, pi
PolarClass(d) ==
    IF d.y < 0 THEN 0
    ELSE IF d.y = 0 /\ d.x >= 0 THEN 1
    ELSE IF d.y > 0 THEN 2
    ELSE 3

\* atan2 of d is less than atan2 of g
AngleLess(d, g) ==
    \/ PolarClass(d) < PolarClass(g)
    \/ /\ PolarClass(d) = PolarClass(g)
       /\ PolarClass(d) \in {0, 2}
       /\ d.x * g.y - d.y * g.x > 0

\* v put into the sorted list before the first vertex of greater angle
InsertByAngle(coords, sorted, v) ==
    LET later == {k \in 1..Len(sorted) :
                    AngleLess(FromCentroid(coords, v), FromCentroid(coords, sorted[k]))}
        at == IF later = {} THEN Len(sorted) + 1 ELSE Least(later)
    IN  SubSeq(sorted, 1, at - 1) \o <<v>> \o SubSeq(sorted, at, Len(sorted))

RECURSIVE SortedUpTo(_, _)
SortedUpTo(coords, k) ==
    IF k = 0 THEN << >> ELSE InsertByAngle(coords, SortedUpTo(coords, k - 1), coords[k])

\* SortByPolarAngle that leaves the order as it is
KeepOrder(coords) == coords

\* the vertices sorted by polar angle around the centroid (a stable sort)
SortByPolarAngle(coords) == SortedUpTo(coords, Len(coords))

\* the repair: a polygon with a crossing is rebuilt, any other is kept
RepairSelfIntersection(coords) ==
    IF HasSelfIntersection(coords) THEN SortByPolarAngle(coords) ELSE coords

\* the polygons repaired: every list of 3 to MaxVertices points of a grid
RepairPoints == [lat : {-1, 0, 1}, lon : {-1, 0, 1}]

RepairCalls ==
    [fn : {"repairSelfIntersection"},
     vertices : UNION {[1..n -> RepairPoints] : n \in 3..MaxVertices}]

InitRepair ==
    /\ call \in RepairCalls
    /\ ret = << >>
    /\ text = << >>
    /\ pc = "repair"
    /\ Entered
    /\ NoMarkers

\* the repair of the polygon
CallRepairSelfIntersection ==
    /\ pc = "repair"
    /\ ret' = <<RepairSelfIntersection(call.vertices)>>
    /\ pc' = "repaired"
    /\ UNCHANGED <<call, mapVars, showAll, locationGroups, text, parts, i, seenIds, notams, notamId,
                   content, eContent, scanVars>>

\* the repair of the polygon repaired
CallRepairAgain ==
    /\ pc = "repaired"
    /\ ret' = Append(ret, RepairSelfIntersection(ret[1]))
    /\ pc' = "repaired twice"
    /\ UNCHANGED <<call, mapVars, showAll, locationGroups, text, parts, i, seenIds, notams, notamId,
                   content, eContent, scanVars>>

NextRepair == CallRepairSelfIntersection \/ CallRepairAgain

SpecRepair == InitRepair /\ [][NextRepair]_vars

\* how often the point g is a vertex of the polygon
Occurrences(coords, g) == Cardinality({k \in 1..Len(coords) : coords[k] = g})

\* C25: for every polygon in which two edges that are not neighbours cross
\* properly, the vertex order after the repair has no such pair of edges and
\* is a permutation of the same vertices; a polygon without a crossing is
\* left as it is; and the repair applied twice equals the repair applied
\* once.
C25_RepairMakesSimple ==
    /\ (pc = "repaired" /\ call.fn = "repairSelfIntersection")
          => /\ ~HasSelfIntersection(ret[1])
             /\ \A g \in RepairPoints :
                   Occurrences(ret[1], g) = Occurrences(call.vertices, g)
             /\ ~HasSelfIntersection(call.vertices) => ret[1] = call.vertices
    /\ (pc = "repaired twice" /\ call.fn = "repairSelfIntersection")
          => ret[2] = ret[1]

\* a bow tie rebuilt as a square
C25_Witness ==
    /\ pc = "repaired twice"
    /\ call.fn = "repairSelfIntersection"
    /\ call.vertices = <<[lat |-> -1, lon |-> -1], [lat |-> 1, lon |-> 1],
                         [lat |-> 1, lon |-> -1], [lat |-> -1, lon |-> 1]>>
    /\ HasSelfIntersection(call.vertices)
    /\ ret[1] = <<[lat |-> -1, lon |-> -1], [lat |-> -1, lon |-> 1],
                  [lat |-> 1, lon |-> 1], [lat |-> 1, lon |-> -1]>>
    /\ ret[2] = ret[1]

---------------------------------------------------------------------------
(* The two tests of the scan, in the order of the code and in the order    *)
(* the specification lists them (section 4.7, step 3).  Positions are      *)
(* counted in thousandths of an arc second here, the precision of tokens   *)
(* such as 455554.997N, so that two positions can agree at 6 decimals of a *)
(* degree and differ at 3.                                                 *)

MilliDeg == 3600000

\* toFixed(6) and toFixed(3) of an angle of thousandths of an arc second,
\* as the number of 1e-6 and of 1e-3 degrees (no angle used is a tie)
FineFixed6(v) == (10 * v + 18) \div 36
FineFixed3(v) == (v + 1800) \div 3600

\* lines 328-329
FinePosKey(coords) == <<FineFixed6(coords.lat), FineFixed6(coords.lon)>>
FineCoarsePosKey(coords) == <<FineFixed3(coords.lat), FineFixed3(coords.lon)>>

\* lines 338-346
GroupClosure(s) ==
    IF ~s.groupClosed /\ Len(s.coordinates) > 0
    THEN [coordinates |-> << >>,
          seenPositions |-> {},
          closedGroupPositions |->
              s.closedGroupPositions
                \cup {FineCoarsePosKey(s.coordinates[k]) : k \in 1..Len(s.coordinates)},
          groupClosed |-> TRUE,
          coordinateGroups |-> Append(s.coordinateGroups, s.coordinates)]
    ELSE s

\* lines 348-355
Accepted(s, coords) ==
    [s EXCEPT !.groupClosed = FALSE,
              !.seenPositions = s.seenPositions \cup {FinePosKey(coords)},
              !.coordinates = Append(s.coordinates, coords)]

\* lines 327-357: the closed set is asked first
CodeOrder(s, coords) ==
    IF FineCoarsePosKey(coords) \in s.closedGroupPositions THEN s
    ELSE IF FinePosKey(coords) \in s.seenPositions THEN GroupClosure(s)
    ELSE Accepted(s, coords)

\* the specification's step 3: the seen set is asked first
StatedOrder(s, coords) ==
    IF FinePosKey(coords) \in s.seenPositions THEN GroupClosure(s)
    ELSE IF FineCoarsePosKey(coords) \in s.closedGroupPositions THEN s
    ELSE Accepted(s, coords)

\* the state of a scan
ScanState ==
    [coordinates |-> coordinates, seenPositions |-> seenPositions,
     closedGroupPositions |-> closedGroupPositions, groupClosed |-> groupClosed,
     coordinateGroups |-> coordinateGroups]

MaxScanned == 5

\* 48 00 03.600 N, 48 00 01.799 N, 48 00 01.801 N, 49 N and 50 N, all at
\* 003 04 41 E
FinePositions ==
    {[lat |-> v, lon |-> 3 * MilliDeg + 4 * 60000 + 41000] :
        v \in {48 * MilliDeg + 3600, 48 * MilliDeg + 1799, 48 * MilliDeg + 1801,
               49 * MilliDeg, 50 * MilliDeg}}

OrderCalls ==
    [fn : {"scan"},
     decoded : UNION {[1..n -> FinePositions] : n \in 0..MaxScanned}]

InitOrders ==
    /\ call \in OrderCalls
    /\ text = << >>
    /\ pc = "orders"
    /\ Entered
    /\ NoMarkers
    /\ ret = ScanState

\* one coordinate handled by the scan of the code, kept in the variables of
\* the scan, and by the scan of the specification, kept in ret
ScanBothOrders ==
    /\ pc = "orders"
    /\ i <= Len(call.decoded)
    /\ LET s == CodeOrder(ScanState, call.decoded[i])
       IN  /\ coordinates' = s.coordinates
           /\ seenPositions' = s.seenPositions
           /\ closedGroupPositions' = s.closedGroupPositions
           /\ groupClosed' = s.groupClosed
           /\ coordinateGroups' = s.coordinateGroups
    /\ ret' = StatedOrder(ret, call.decoded[i])
    /\ i' = i + 1
    /\ UNCHANGED <<call, mapVars, showAll, locationGroups, text, parts, seenIds, notams, pc, notamId,
                   content, eContent, extractionStartIndex, areaSearchLastIndex,
                   coordLastIndex>>

\* lines 361-364, for both scans
CollectBothOrders ==
    /\ pc = "orders"
    /\ i > Len(call.decoded)
    /\ coordinateGroups' = CollectGroups(coordinateGroups, coordinates)
    /\ ret' = [ret EXCEPT !.coordinateGroups = CollectGroups(ret.coordinateGroups, ret.coordinates)]
    /\ pc' = "orders done"
    /\ UNCHANGED <<call, mapVars, showAll, locationGroups, text, parts, i, seenIds, notams, notamId,
                   content, eContent, extractionStartIndex, areaSearchLastIndex,
                   coordLastIndex, groupClosed, closedGroupPositions, coordinates,
                   seenPositions>>

NextOrders == ScanBothOrders \/ CollectBothOrders

SpecOrders == InitOrders /\ [][NextOrders]_vars

\* C27: the code tests the closed set (3 decimals) before the seen set (6
\* decimals), the specification lists the test of the seen set first; for
\* every sequence of decoded coordinates the two orders emit the same
\* groups.
C27_OrdersAgree ==
    pc = "orders done" => coordinateGroups = ret.coordinateGroups

====
